---------------------------- MODULE Spec2Model ----------------------------
(***************************************************************************)
(* Model of the DCF77 transmitter of pico_dcf77_tx.py (and of the older    *)
(* single-context variant pico_ntp2dcf77.py): the time code encoder, the   *)
(* summer-time rule, and the run loop of Dcf77.run with its background job *)
(* and the double buffer Dcf77.TimecodeSet.                                *)
(*                                                                         *)
(* Python values are modelled as follows.  None is the empty tuple <<>>    *)
(* and a set attribute x is <<x>>; a list is an object of the heap, named  *)
(* by a number, so that two names of one list see the same appends.        *)
(***************************************************************************)
EXTENDS Integers, Sequences, FiniteSets, TLC

VARIABLES
  encIn,          \* encoder harness: the argument of one genTimecode call
  encOut,         \* encoder harness: what that call produced (<<>> before it)
  secToRun,       \* argument of Dcf77.run
  now,            \* utime.time() when alignSecondEdge returns
  id,             \* Dcf77.TimecodeSet.id
  timecodeSets,   \* Dcf77.TimecodeSet.timecodeSets: slot -> [secs, t, vector]
  heap,           \* the list objects: object number -> sequence of symbols
  lock,           \* _thread lock of run: "free" or "job"
  pending,        \* started background jobs that have not acquired the lock
  job,            \* the background job inside "with lock": its position and locals
  jobErrors,      \* background jobs ended by an exception
  mpc,            \* position of the streaming context (run, Core0)
  minute,         \* number of iterations of the run loop started so far
  mvec,           \* sendTimecode's argument vector: <<>> (None) or <<object>>
  i,              \* sendTimecode's loop index
  mval,          \* sendTimecode's local value = vector[i]
  fifoErrorCheck, \* Dcf77.fifoErrorCheck
  underruns,      \* number of puts so far that found the TX FIFO empty (bounded)
  passEmpty,      \* number of puts of the last pass that found the TX FIFO empty
  secPuts,        \* the descriptors put in the last pass of sendTimecode's loop
  sent,           \* the indices whose descriptors were all put, this minute
  fifoErrors,     \* number of "ERROR: TX_FIFO empty" lines printed so far
  overrunErrors,  \* iterations in which "backgroundJob has not finished" was printed
  overrun,        \* a swap has run while a background job was unfinished
  started,        \* number of _thread.start_new_thread calls so far
  ticks,          \* whole seconds elapsed since run computed ticksTimeout
  ticksStart,     \* utime.ticks_ms() when run computed ticksTimeout
  lfsr,           \* genLfsrChips: the register of the running generator
  chips,          \* genLfsrChips: the chips the running generator has yielded
  arrays          \* Dcf77.__init__: the array.array objects of line 344..347 built so far

VARIABLES
  hpc,            \* carrier harness: position of run in its lines 387..391, then "feed"
  plan,           \* carrier harness: the descriptors sendTimecode is to put
  feed,           \* carrier harness: the descriptors not put yet
  active,         \* the state machine is enabled (sm.active)
  txFifo,         \* the TX FIFO: the words put and not pulled yet
  osr,            \* output shift register: the bits not shifted out yet
  isr,            \* input shift register
  X,              \* scratch register X
  Y,              \* scratch register Y
  pc,             \* address of the next instruction
  pins,           \* the side-set pins: P, N or Z
  fetched,        \* meter: the word whose decoding has begun (<<>>: none)
  cur,            \* meter: the word being driven (<<>>: none)
  clk,            \* meter: clocks since the first drive instruction of cur
  stalled,        \* meter: the state machine has stalled since then
  done,           \* meter: the descriptors driven to their end
  sign,           \* meter: the last polarity driven: P, N, or Z before any
  halfClk,        \* meter: clocks since the polarity last changed
  halfPasses,     \* meter: passes begun since the polarity last changed
  halfLow,        \* meter: the half period began in the low amplitude loops
  lastHalf,       \* meter: the last half period ended (<<>>: none)
  pinClk          \* meter: clocks the pins have held their state in this descriptor

VARIABLES
  gfArgs,         \* descriptor harness: the arguments of one genFifoData call
  gfWord,         \* descriptor harness: the word that call returned (<<>> before it)
  swYear,         \* switch day harness: t.year of one isSummerTime call
  swDays          \* switch day harness: its two switch days (<<>> before it)

encVars == <<encIn, encOut>>
runVars == <<secToRun, ticksStart, now, id, timecodeSets, heap, lock, pending, job,
             jobErrors, mpc, minute, mvec, i, mval, fifoErrorCheck,
             underruns, passEmpty, secPuts, sent, fifoErrors, overrunErrors, overrun, ticks, started>>
initVars == <<lfsr, chips, arrays>>
meterVars == <<fetched, cur, clk, stalled, done, sign, halfClk, halfPasses,
               halfLow, lastHalf, pinClk>>
pioVars == <<hpc, plan, feed, active, txFifo, osr, isr, X, Y, pc, pins, meterVars>>
gfVars == <<gfArgs, gfWord>>
swVars == <<swYear, swDays>>
hwVars == <<initVars, pioVars, gfVars, swVars>>
vars == <<encVars, runVars, hwVars>>

None == <<>>

----------------------------------------------------------------------------
(* utime.localtime / utime.mktime: seconds since 1970-01-01 <-> calendar.   *)

\* Days from 1970-01-01 to the given civil date (proleptic Gregorian).
DaysFromCivil(y0, m, d) ==
  LET y   == IF m <= 2 THEN y0 - 1 ELSE y0
      era == y \div 400
      yoe == y - era * 400
      mp  == IF m > 2 THEN m - 3 ELSE m + 9
      doy == (153 * mp + 2) \div 5 + d - 1
      doe == yoe * 365 + yoe \div 4 - yoe \div 100 + doy
  IN  era * 146097 + doe - 719468

\* The civil date of a day number, as <<year, month, mday>>.
CivilFromDays(days) ==
  LET z   == days + 719468
      era == z \div 146097
      doe == z - era * 146097
      yoe == (doe - doe \div 1460 + doe \div 36524 - doe \div 146096) \div 365
      doy == doe - (365 * yoe + yoe \div 4 - yoe \div 100)
      mp  == (5 * doy + 2) \div 153
      d   == doy - (153 * mp + 2) \div 5 + 1
      m   == IF mp < 10 THEN mp + 3 ELSE mp - 9
      y   == yoe + era * 400 + (IF m <= 2 THEN 1 ELSE 0)
  IN  <<y, m, d>>

\* utime.mktime((year, month, mday, hour, minute, second, _, _))
mktime(year, month, mday, hour, min, sec) ==
  DaysFromCivil(year, month, mday) * 86400 + hour * 3600 + min * 60 + sec

\* LocalTime.localtime(secs): the TimeTuple of utime.localtime(secs)
localtime(secs) ==
  LET days == secs \div 86400
      rem  == secs % 86400
      ymd  == CivilFromDays(days)
  IN  [year    |-> ymd[1],
       month   |-> ymd[2],
       mday    |-> ymd[3],
       hour    |-> rem \div 3600,
       minute  |-> (rem % 3600) \div 60,
       second  |-> rem % 60,
       weekday |-> (days + 3) % 7,
       yearday |-> days - DaysFromCivil(ymd[1], 1, 1) + 1]

----------------------------------------------------------------------------
(* LocalTime.TzCet.isSummerTime                                             *)

\* int(5 * year / 4 + 4): the float quotient truncated (years are positive)
\* a switch day one day off
SwitchDayMarchPlus5(year) == 31 - (((5 * year) \div 4 + 5) % 7)

\* the days of month of lines 88 and 89
SwitchDayMarch(year)   == 31 - (((5 * year) \div 4 + 4) % 7)
SwitchDayOctober(year) == 31 - (((5 * year) \div 4 + 1) % 7)

HHMarch(year)   == mktime(year, 3,  SwitchDayMarch(year), 1, 0, 0)
HHOctober(year) == mktime(year, 10, SwitchDayOctober(year), 1, 0, 0)

isSummerTimeInclusive(secs) ==
  LET t == localtime(secs)
  IN  IF secs <= HHMarch(t.year) THEN FALSE
      ELSE IF secs <= HHOctober(t.year) THEN TRUE
      ELSE FALSE

isSummerTime(secs) ==
  LET t == localtime(secs)
  IN  IF secs < HHMarch(t.year) THEN FALSE
      ELSE IF secs < HHOctober(t.year) THEN TRUE
      ELSE FALSE

----------------------------------------------------------------------------
(* Dcf77.TimecodeSet.genTimecode: the time code functions                   *)

Pow2(n) == IF n = 0 THEN 1 ELSE IF n = 1 THEN 2 ELSE IF n = 2 THEN 4 ELSE 8

sync == <<2>>

\* the generator bcd(value, numDigits), run to its end
RECURSIVE bcdLoop(_, _, _, _, _)
bcdLoop(value, bcdValue, bitPos, numDigits, out) ==
  IF bitPos >= numDigits THEN out
  ELSE LET b == IF bitPos % 4 = 0 THEN value % 10 ELSE bcdValue
           y == (b \div Pow2(bitPos % 4)) % 2
           v == IF bitPos % 4 = 3 THEN value \div 10 ELSE value
       IN  bcdLoop(v, b, bitPos + 1, numDigits, Append(out, y))

RECURSIVE bcdMsbLoop(_, _, _, _, _)
bcdMsbLoop(value, bcdValue, bitPos, numDigits, out) ==
  IF bitPos >= numDigits THEN out
  ELSE LET b == IF bitPos % 4 = 0 THEN value % 10 ELSE bcdValue
           y == (b \div Pow2(3 - (bitPos % 4))) % 2
           v == IF bitPos % 4 = 3 THEN value \div 10 ELSE value
       IN  bcdMsbLoop(v, b, bitPos + 1, numDigits, Append(out, y))

bcdMsbFirst(value, numDigits) == bcdMsbLoop(value, 0, 0, numDigits, <<>>)

bcd(value, numDigits) == bcdLoop(value, 0, 0, numDigits, <<>>)

\* bin(value, count): [value & 0b1] * count
bin(value, count) == [k \in 1..count |-> value % 2]

RECURSIVE sum(_)
sum(vector) == IF vector = <<>> THEN 0 ELSE Head(vector) + sum(Tail(vector))

parityOdd(vector) == bin(sum(vector) + 1, 1)

parity(vector) == bin(sum(vector), 1)

\* Python's vector[k:], k counted from 0
Slice(vector, k) == SubSeq(vector, k + 1, Len(vector))

\* The list that statement n (1..12, lines 287..298) appends to the vector v
\* built so far, for the TimeTuple t and the flag z1.
genStmt(n, t, z1, v) ==
  LET a1 == 0
      z2 == 1 - z1
      a2 == 0
  IN  CASE n = 1  -> bin(0, 1) \o bin(0, 14)
        [] n = 2  -> bin(0, 1) \o bin(a1, 1) \o bin(z1, 1) \o bin(z2, 1)
                       \o bin(a2, 1) \o bin(1, 1)
        [] n = 3  -> bcd(t.minute, 7)
        [] n = 4  -> parity(Slice(v, 21))
        [] n = 5  -> bcd(t.hour, 6)
        [] n = 6  -> parity(Slice(v, 29))
        [] n = 7  -> bcd(t.mday, 6)
        [] n = 8  -> bcd(t.weekday + 1, 3)
        [] n = 9  -> bcd(t.month, 5)
        [] n = 10 -> bcd(t.year, 8)
        [] n = 11 -> parity(Slice(v, 36))
        [] n = 12 -> sync

RECURSIVE genFrom(_, _, _, _)
genFrom(n, t, z1, v) ==
  IF n > 12 THEN v ELSE genFrom(n + 1, t, z1, v \o genStmt(n, t, z1, v))

\* genTimecode(t, z1=...) of pico_ntp2dcf77.py: the whole vector
genTimecodeT(t, z1) == genFrom(1, t, z1, <<>>)

BoolIntZero(b) == 0

\* int(z1) of a bool
BoolInt(b) == IF b THEN 1 ELSE 0

\* TimecodeSet.genTimecode(secs) of pico_dcf77_tx.py, run to its end: the
\* attributes of the slot afterwards (the vector as a value)
genTimecode(secs) ==
  LET t == localtime(secs)
  IN  [secs |-> secs, t |-> t, vector |-> genTimecodeT(t, BoolInt(isSummerTime(secs)))]

----------------------------------------------------------------------------
(* Dcf77.__init__: the FIFO words and the phase modulation chips            *)

\* A 32-bit FIFO word is the sequence of its bits, bit 0 first.
\* (value >> s, taken in steps of at most 30 bits)
RECURSIVE Shr(_, _)
Shr(value, s) == IF s <= 30 THEN value \div (2 ^ s) ELSE Shr(value \div (2 ^ 30), s - 30)

Bits(value, n) == [k \in 1..n |-> Shr(value, k - 1) % 2]

\* the unsigned value of a sequence of bits, bit 0 first
RECURSIVE BitsValue(_)
BitsValue(b) == IF b = <<>> THEN 0 ELSE Head(b) + 2 * BitsValue(Tail(b))

\* int(round(num / den, 0)) for num >= 0, den > 0: Python rounds halves to even
RoundDiv(num, den) ==
  LET q == num \div den
      r == num % den
  IN  IF 2 * r < den THEN q
      ELSE IF 2 * r > den THEN q + 1
      ELSE IF q % 2 = 0 THEN q ELSE q + 1

DCF77_CARRIER_FREQ == 77500
SYSTEM_FREQ == DCF77_CARRIER_FREQ * 600 * 2

\* genFifoData without "if lowAmp: phase = 0.0"
genFifoDataKeepsPhase(cycles, lowAmp, phase) ==
  LET CLOCKS_77500HZ_DIV8 == (SYSTEM_FREQ \div DCF77_CARRIER_FREQ) \div 8
      clocks == IF lowAmp THEN cycles * (CLOCKS_77500HZ_DIV8 \div 2) - 1
                ELSE cycles * (CLOCKS_77500HZ_DIV8 - 1) * 2 - 1
      phaseOfs == IF phase >= 0
                  THEN CLOCKS_77500HZ_DIV8
                         - RoundDiv((CLOCKS_77500HZ_DIV8 * 2) * phase, 3600) - 2
                  ELSE RoundDiv((CLOCKS_77500HZ_DIV8 * 2) * (-phase), 3600) - 2
  IN  Bits(clocks, 22) \o <<IF lowAmp THEN 1 ELSE 0>>
        \o <<IF phase >= 0 THEN 0 ELSE 1>> \o Bits(phaseOfs, 8)

\* genFifoData(cycles, lowAmp, phase), the phase in tenths of a degree
\* (+15.6 is 156): the word ((phaseOfs & 0xff) << 24) | (negPhaseMod << 23)
\* | (lowAmp << 22) | (clocks & 0x3fffff)
genFifoData(cycles, lowAmp, phase) ==
  LET CLOCKS_77500HZ_DIV8 == (SYSTEM_FREQ \div DCF77_CARRIER_FREQ) \div 8
      clocks == IF lowAmp THEN cycles * (CLOCKS_77500HZ_DIV8 \div 2) - 1
                ELSE cycles * (CLOCKS_77500HZ_DIV8 - 1) * 2 - 1
      ph == IF lowAmp THEN 0 ELSE phase
      negPhaseMod == ~(ph >= 0)
      phaseOfs == IF ph >= 0
                  THEN CLOCKS_77500HZ_DIV8
                         - RoundDiv((CLOCKS_77500HZ_DIV8 * 2) * ph, 3600) - 2
                  ELSE RoundDiv((CLOCKS_77500HZ_DIV8 * 2) * (-ph), 3600) - 2
  IN  Bits(clocks, 22) \o <<IF lowAmp THEN 1 ELSE 0>>
        \o <<IF negPhaseMod THEN 1 ELSE 0>> \o Bits(phaseOfs, 8)

\* lines 335..343
LOW_7750  == genFifoData(7750, TRUE, 0)
LOW_15500 == genFifoData(15500, TRUE, 0)
HIGH_7750 == genFifoData(7750, FALSE, 0)
HIGH_560  == genFifoData(560, FALSE, 0)
HIGH_120_PM_CHIP == <<genFifoData(120, FALSE, 156), genFifoData(120, FALSE, -156)>>

\* pico_ntp2dcf77.py: genFifoData(clocks, lowAmp, negPhaseMod, phaseOfs) and
\* the words its __init__ builds from hand-written fields, lines 231..239
genFifoDataNtp(clocks, lowAmp, negPhaseMod, phaseOfs) ==
  Bits(clocks, 22) \o <<IF lowAmp THEN 1 ELSE 0>>
    \o <<IF negPhaseMod THEN 1 ELSE 0>> \o Bits(phaseOfs, 8)

NTP_LOW_7750  == genFifoDataNtp(7750 * 75 - 1, TRUE, FALSE, 149 - 1)
NTP_LOW_15500 == genFifoDataNtp(15500 * 75 - 1, TRUE, FALSE, 149 - 1)
NTP_HIGH_7750 == genFifoDataNtp(7750 * 149 * 2 - 1, FALSE, FALSE, 149 - 1)
NTP_HIGH_560  == genFifoDataNtp(560 * 149 * 2 - 1, FALSE, FALSE, 149 - 1)
NTP_HIGH_120_PM_CHIP ==
  <<genFifoDataNtp(120 * 149 * 2 - 1, FALSE, FALSE, 136 - 1),
    genFifoDataNtp(120 * 149 * 2 - 1, FALSE, TRUE, 12 - 1)>>

\* lfsr ^= 0x110: bits 4 and 8 flipped
FlipBit(v, b) == IF (v \div (2 ^ b)) % 2 = 1 THEN v - 2 ^ b ELSE v + 2 ^ b
\* lfsr ^= 0x310 and lfsr ^= 0x100 in its place
Xor310(v) == FlipBit(FlipBit(FlipBit(v, 4), 8), 9)
Xor100(v) == FlipBit(v, 8)

Xor110(v) == FlipBit(FlipBit(v, 4), 8)

\* one pass of the loop of genLfsrChips, lines 324..328, on the register:
\* the chip yielded and the register afterwards
lfsrStepXorOnChipOnly(reg) ==
  LET chip    == reg % 2
      shifted == reg \div 2
  IN  [chip |-> chip, lfsr |-> IF chip = 1 THEN Xor110(shifted) ELSE shifted]

lfsrStep(reg) ==
  LET chip    == reg % 2
      shifted == reg \div 2
  IN  [chip |-> chip,
       lfsr |-> IF chip = 1 \/ shifted = 0 THEN Xor110(shifted) ELSE shifted]

\* the register after n passes of the loop, the passes taken in two halves
\* (the register is 9 bits wide: never negative)
RECURSIVE lfsrAfter(_, _)
lfsrAfter(reg, n) ==
  IF n = 0 THEN reg
  ELSE IF n = 1 THEN lfsrStep(reg).lfsr
  ELSE LET half == lfsrAfter(reg, n \div 2)
       IN  IF half >= 0 THEN lfsrAfter(half, n - n \div 2) ELSE half

\* genLfsrChips run for size passes from a register value: the chips yielded
RECURSIVE genLfsrFrom(_, _)
genLfsrFrom(reg, size) ==
  IF size = 0 THEN <<>>
  ELSE IF size = 1 THEN <<lfsrStep(reg).chip>>
  ELSE LET h   == size \div 2
           mid == lfsrAfter(reg, h)
       IN  IF mid >= 0 THEN genLfsrFrom(reg, h) \o genLfsrFrom(mid, size - h)
           ELSE <<>>

genLfsrChips(size) == genLfsrFrom(0, size)

\* number of chips of one second, lines 345..346
PmChips == 512

\* self.HIGH_61440_PM after Dcf77.__init__: (non-inverted, inverted)
HIGH_61440_PM ==
  LET c == genLfsrChips(PmChips)
  IN  <<[k \in 1..PmChips |-> HIGH_120_PM_CHIP[c[k] + 1]],
        [k \in 1..PmChips |-> HIGH_120_PM_CHIP[(1 - c[k]) + 1]]>>

\* the variables of the construction when it is not the subject
InitIdle == lfsr = 0 /\ chips = <<>> /\ arrays = <<>>

\* the meter of the carrier harness before anything is driven
MeterIdle ==
  /\ fetched = <<>> /\ cur = <<>> /\ clk = 0 /\ stalled = FALSE /\ done = <<>>
  /\ sign = "Z" /\ halfClk = 0 /\ halfPasses = 0 /\ halfLow = FALSE
  /\ lastHalf = <<>> /\ pinClk = 0

\* the variables of the carrier sequencer when it is not the subject
PioIdle ==
  /\ hpc = "idle" /\ plan = <<>> /\ feed = <<>>
  /\ active = FALSE /\ txFifo = <<>> /\ osr = <<>>
  /\ isr = 0 /\ X = 0 /\ Y = 0 /\ pc = 0 /\ pins = "Z"
  /\ MeterIdle

\* the variables of the descriptor harness when it is not the subject
GfIdle == gfArgs = <<>> /\ gfWord = <<>>

SwIdle == swYear = 0 /\ swDays = <<>>

HwIdle == InitIdle /\ PioIdle /\ GfIdle /\ SwIdle

----------------------------------------------------------------------------
(* The encoder harness: one call of genTimecode on one input.               *)

MaxYearStep == 9
OutOfRange  == 20
Window      == 90

Years == {2000 + 11 * k : k \in 0..MaxYearStep}

BaseTuple ==
  [year |-> 2024, month |-> 3, mday |-> 31, hour |-> 0, minute |-> 5,
   second |-> 0, weekday |-> 6, yearday |-> 91]

\* every minute and hour on one date; every day, weekday and month of one
\* year; every day and weekday of one month of each of the Years
ValidTuples ==
  {[BaseTuple EXCEPT !.minute = m, !.hour = h] : m \in 0..59, h \in 0..23}
  \cup
  UNION {{[BaseTuple EXCEPT !.mday = d, !.weekday = w, !.month = mo]
            : d \in 1..31, w \in 0..6} : mo \in 1..12}
  \cup
  UNION {{[BaseTuple EXCEPT !.mday = d, !.weekday = w, !.year = y]
            : d \in 1..31, w \in 0..6} : y \in Years}

\* one field above its range
InvalidTuples ==
  {[BaseTuple EXCEPT !.minute = 59 + k] : k \in 1..OutOfRange}
  \cup {[BaseTuple EXCEPT !.hour = 23 + k] : k \in 1..OutOfRange}
  \cup {[BaseTuple EXCEPT !.mday = 31 + k] : k \in 1..OutOfRange}
  \cup {[BaseTuple EXCEPT !.month = 12 + k] : k \in 1..OutOfRange}

ValidTuple(t) ==
  /\ t.minute \in 0..59 /\ t.hour \in 0..23 /\ t.mday \in 1..31
  /\ t.weekday \in 0..6 /\ t.month \in 1..12 /\ t.year >= 0

\* the seconds around the two switch instants of 2024 and 2025
SwitchInstants ==
  {mktime(2024, 3, 31, 1, 0, 0), mktime(2024, 10, 27, 1, 0, 0),
   mktime(2025, 3, 30, 1, 0, 0), mktime(2025, 10, 26, 1, 0, 0)}

SecsInputs == UNION {{s + d - Window : d \in 0..(2 * Window)} : s \in SwitchInstants}

EncInputs ==
  {[kind |-> "tuple", t |-> t, z1 |-> z, secs |-> 0]
     : t \in ValidTuples \cup InvalidTuples, z \in {0, 1}}
  \cup {[kind |-> "secs", t |-> BaseTuple, z1 |-> 0, secs |-> s] : s \in SecsInputs}

NoJob == [pc |-> "idle", k |-> 0, cur |-> 0, nxt |-> 0, arg |-> 0, n |-> 0]

\* the state after Dcf77.__init__ (TimecodeSet.create(), fifoErrorCheck = False)
Constructed ==
  /\ id = 0
  /\ timecodeSets = [s \in {0, 1} |-> [secs |-> None, t |-> None, vector |-> None]]
  /\ heap = <<>> /\ lock = "free" /\ pending = {} /\ job = NoJob /\ jobErrors = {}
  /\ mpc = "off" /\ minute = 0 /\ mvec = None /\ i = 0 /\ mval = 0
  /\ fifoErrorCheck = FALSE /\ underruns = 0 /\ passEmpty = 0
  /\ secPuts = <<>> /\ sent = <<>> /\ fifoErrors = 0 /\ overrunErrors = {} /\ overrun = FALSE /\ started = 0
  /\ ticks = 0

RunIdle == secToRun = 0 /\ ticksStart = 0 /\ now = 0 /\ Constructed

EncInit ==
  /\ encIn \in EncInputs
  /\ encOut = None
  /\ RunIdle
  /\ HwIdle

\* vector = genTimecode(t, z1 = ...) of pico_ntp2dcf77.py
EncTuple ==
  /\ encOut = None
  /\ encIn.kind = "tuple"
  /\ encOut' = <<[secs |-> None, t |-> <<encIn.t>>,
                  vector |-> <<genTimecodeT(encIn.t, encIn.z1)>>]>>
  /\ UNCHANGED <<encIn, runVars, hwVars>>

\* slot.genTimecode(secs) of pico_dcf77_tx.py
EncSecs ==
  /\ encOut = None
  /\ encIn.kind = "secs"
  /\ LET r == genTimecode(encIn.secs)
     IN  encOut' = <<[secs |-> <<r.secs>>, t |-> <<r.t>>, vector |-> <<r.vector>>]>>
  /\ UNCHANGED <<encIn, runVars, hwVars>>

EncNext == EncTuple \/ EncSecs

SpecEnc == EncInit /\ [][EncNext]_vars

----------------------------------------------------------------------------
(* Dcf77.__init__, lines 340..347: the two arrays of HIGH_61440_PM, each    *)
(* built from its own genLfsrChips(512) generator, one chip at a time.      *)

InitStart ==
  /\ encIn = [kind |-> "secs", t |-> BaseTuple, z1 |-> 0, secs |-> 0]
  /\ encOut = None
  /\ RunIdle
  /\ PioIdle
  /\ GfIdle
  /\ SwIdle
  /\ lfsr = 0 /\ chips = <<>> /\ arrays = <<>>

\* one pass of the loop of the running generator, lines 323..328
LfsrYield ==
  /\ Len(arrays) < 2
  /\ Len(chips) < PmChips
  /\ LET r == lfsrStep(lfsr)
     IN  /\ chips' = Append(chips, r.chip)
         /\ lfsr' = r.lfsr
  /\ UNCHANGED <<arrays, encVars, runVars, pioVars, gfVars, swVars>>

\* the generator is exhausted: array.array('I', ...) of line 345 (chip) or
\* 346 (1 - chip) is complete, and the next generator starts at lfsr = 0
ArrayBuilt ==
  /\ Len(arrays) < 2
  /\ Len(chips) = PmChips
  /\ LET inv == Len(arrays) = 1
     IN  arrays' = Append(arrays,
           [k \in 1..PmChips |->
              HIGH_120_PM_CHIP[(IF inv THEN 1 - chips[k] ELSE chips[k]) + 1]])
  /\ lfsr' = 0 /\ chips' = <<>>
  /\ UNCHANGED <<encVars, runVars, pioVars, gfVars, swVars>>

InitNext == LfsrYield \/ ArrayBuilt

SpecInit == InitStart /\ [][InitNext]_vars

----------------------------------------------------------------------------
(* The descriptor harness: one call of genFifoData on one input.            *)

\* the phases drawn are the multiples of 1.2 degrees up to MaxPhaseStep of
\* them (13 * 1.2 = 15.6), for which 300 * phase / 360 is a whole number
MaxPhaseStep == 13
GfCycles == {120, 560, 7750, 15500}
GfPhases == {12 * k : k \in (0 - MaxPhaseStep)..MaxPhaseStep}

GfStart ==
  /\ encIn = [kind |-> "secs", t |-> BaseTuple, z1 |-> 0, secs |-> 0]
  /\ encOut = None
  /\ RunIdle
  /\ InitIdle
  /\ PioIdle
  /\ gfArgs \in {<<[cycles |-> c, lowAmp |-> l, phase |-> ph]>> :
                   c \in GfCycles, l \in BOOLEAN, ph \in GfPhases}
  /\ gfWord = <<>>
  /\ SwIdle

\* the call, lines 300..319
GfCall ==
  /\ gfArgs # <<>>
  /\ gfWord = <<>>
  /\ gfWord' = genFifoData(gfArgs[1].cycles, gfArgs[1].lowAmp, gfArgs[1].phase)
  /\ UNCHANGED <<gfArgs, encVars, runVars, initVars, pioVars, swVars>>

GfNext == GfCall

SpecGf == GfStart /\ [][GfNext]_vars

----------------------------------------------------------------------------
(* The switch day harness: lines 88 and 89 of isSummerTime for one year.    *)

SwYears == 2000..2099

SwStart ==
  /\ encIn = [kind |-> "secs", t |-> BaseTuple, z1 |-> 0, secs |-> 0]
  /\ encOut = None
  /\ RunIdle
  /\ InitIdle
  /\ PioIdle
  /\ GfIdle
  /\ swYear \in SwYears
  /\ swDays = <<>>

\* the days of month given to utime.mktime for HHMarch and HHOctober
SwCall ==
  /\ swDays = <<>>
  /\ swDays' = <<SwitchDayMarch(swYear), SwitchDayOctober(swYear)>>
  /\ UNCHANGED <<swYear, encVars, runVars, initVars, pioVars, gfVars>>

SwNext == SwCall

SpecSw == SwStart /\ [][SwNext]_vars

----------------------------------------------------------------------------
(* The carrier sequencer: the PIO program pioAsmDcf77Carrier on state       *)
(* machine 0, set up by lines 387..391 of Dcf77.run and fed by sm.put.      *)
(* One step of the program is one instruction; it lasts 1 + delay clocks.   *)

\* side-set values, lines 151..153 (NoSide: the instruction has no .side())
P == "P"
N == "N"
Z == "Z"
NoSide == "-"

Ins(op, arg, n, side, delay) ==
  [op |-> op, arg |-> arg, n |-> n, side |-> side, delay |-> delay]

\* labels of the program: the address each one stands for
ClocksEnd      == 1
HighAmpH2Setup == 8
LowAmpH1Setup  == 10
HighAmpH1      == 13
HighAmpH1_2    == 15
HighAmpH2      == 17
HighAmpH2_2    == 19
LowAmpH1_6     == 21
LowAmpH1       == 22
LowAmpH2_5     == 26
LowAmpH2       == 27
LowAmpH2_2     == 29
WrapTarget     == HighAmpH1
Wrap           == 20
ProgramLength  == 32

\* the assembled program, address 0 first
pioAsmDcf77Carrier ==
  << Ins("nop", "",       0,              Z,      0),   \*  0
     Ins("out", "y",      22,             NoSide, 0),   \*  1 ClocksEnd
     Ins("out", "x",      1,              NoSide, 0),   \*  2
     Ins("jmp", "x_dec",  LowAmpH1Setup,  NoSide, 0),   \*  3
     Ins("out", "x",      1,              NoSide, 0),   \*  4
     Ins("jmp", "x_dec",  HighAmpH2Setup, NoSide, 0),   \*  5
     Ins("out", "x",      8,              NoSide, 0),   \*  6
     Ins("jmp", "y_dec",  HighAmpH1_2,    P,      0),   \*  7
     Ins("out", "x",      8,              NoSide, 0),   \*  8 HighAmpH2Setup
     Ins("jmp", "y_dec",  HighAmpH2_2,    N,      0),   \*  9
     Ins("out", "x",      1,              NoSide, 0),   \* 10 LowAmpH1Setup
     Ins("out", "x",      8,              NoSide, 0),   \* 11
     Ins("jmp", "always", LowAmpH1,       NoSide, 0),   \* 12
     Ins("jmp", "y_dec",  HighAmpH1_2,    P,      0),   \* 13 HighAmpH1
     Ins("jmp", "always", ClocksEnd,      P,      0),   \* 14
     Ins("jmp", "x_dec",  HighAmpH1,      P,      2),   \* 15 HighAmpH1_2
     Ins("mov", "x",      0,              P,      3),   \* 16
     Ins("jmp", "y_dec",  HighAmpH2_2,    N,      0),   \* 17 HighAmpH2
     Ins("jmp", "always", ClocksEnd,      N,      0),   \* 18
     Ins("jmp", "x_dec",  HighAmpH2,      N,      2),   \* 19 HighAmpH2_2
     Ins("mov", "x",      0,              N,      3),   \* 20
     Ins("jmp", "x_dec",  LowAmpH1,       Z,      2),   \* 21 LowAmpH1_6
     Ins("nop", "",       0,              P,      0),   \* 22 LowAmpH1
     Ins("jmp", "x_dec",  LowAmpH1_6,     Z,      3),   \* 23
     Ins("mov", "x",      0,              Z,      1),   \* 24
     Ins("jmp", "always", LowAmpH2,       Z,      0),   \* 25
     Ins("jmp", "x_dec",  LowAmpH2,       Z,      3),   \* 26 LowAmpH2_5
     Ins("jmp", "y_dec",  LowAmpH2_2,     N,      0),   \* 27 LowAmpH2
     Ins("jmp", "always", ClocksEnd,      Z,      0),   \* 28
     Ins("jmp", "x_dec",  LowAmpH2_5,     Z,      2),   \* 29 LowAmpH2_2
     Ins("mov", "x",      0,              Z,      2),   \* 30
     Ins("jmp", "always", LowAmpH1,       Z,      0) >> \* 31

\* the levels of the two side-set pins, the pin at sideset_base first:
\* P = 0b01, N = 0b10, Z = 0b00
PinLevels(side) ==
  CASE side = P -> <<1, 0>>
    [] side = N -> <<0, 1>>
    [] side = Z -> <<0, 0>>

\* the same program with out(y, 21) at ClocksEnd
InstrOutY21(addr) ==
  IF addr = ClocksEnd THEN [pioAsmDcf77Carrier[addr + 1] EXCEPT !.n = 21]
  ELSE pioAsmDcf77Carrier[addr + 1]

\* the same program with the reload of HighAmpH1 undriven
InstrReloadZ(addr) ==
  IF addr = 16 THEN [pioAsmDcf77Carrier[addr + 1] EXCEPT !.side = Z]
  ELSE pioAsmDcf77Carrier[addr + 1]

\* the same program with the reload of HighAmpH1 one clock short
ProgramShortReload ==
  [a \in 1..ProgramLength |->
     IF a = 16 + 1 THEN [pioAsmDcf77Carrier[a] EXCEPT !.delay = 2]
     ELSE pioAsmDcf77Carrier[a]]

InstrShortReload(addr) == ProgramShortReload[addr + 1]

Instr(addr) == pioAsmDcf77Carrier[addr + 1]

\* the instructions that open a pass of a half period: the one-clock drive
\* of HighAmpH1, HighAmpH2, LowAmpH1 and LowAmpH2 and of the two setups
PassStart == {7, 9, HighAmpH1, HighAmpH2, LowAmpH1, LowAmpH2}

\* a scratch register is 32 bits wide: decrementing 0 gives 0xFFFFFFFF,
\* written -1 (its value as a two's complement 32-bit integer)
Dec32(v) == IF v = 0 THEN -1 ELSE v - 1

\* the TX FIFO is 8 words deep with fifo_join = JOIN_TX
FifoDepth == 8

\* the word of line 389
Preload == (SYSTEM_FREQ \div DCF77_CARRIER_FREQ) \div 8 - 2

\* sm.exec('out(isr, 32)') on the stopped state machine, with autopull: the
\* output shift register is empty, so the word at the head of the TX FIFO is
\* pulled and all its 32 bits are shifted out into ISR
execOutIsrNoPull(fifo, sr) ==
  [isr |-> BitsValue(sr), osr |-> <<>>, txFifo |-> fifo]

execOutIsr(fifo, sr) ==
  IF sr = <<>> /\ fifo # <<>>
  THEN [isr |-> BitsValue(Head(fifo)), osr |-> <<>>, txFifo |-> Tail(fifo)]
  ELSE [isr |-> BitsValue(sr), osr |-> <<>>, txFifo |-> fifo]

\* the descriptors the harness has sendTimecode put: genFifoData words of a
\* few cycles of each kind, and the chips of HIGH_120_PM_CHIP themselves
MaxCycles == 2
Kinds == {"high", "plus", "minus", "low"}

Descriptor(kind, cycles) ==
  CASE kind = "high"  -> genFifoData(cycles, FALSE, 0)
    [] kind = "plus"  -> genFifoData(cycles, FALSE, 156)
    [] kind = "minus" -> genFifoData(cycles, FALSE, -156)
    [] kind = "low"   -> genFifoData(cycles, TRUE, 0)

Plans ==
  {<<Descriptor(a, 1), Descriptor(b, n), Descriptor(c, 1)>> :
     a \in Kinds, b \in Kinds, c \in Kinds, n \in 1..MaxCycles}
  \cup {<<HIGH_120_PM_CHIP[p], Descriptor("high", 1)>> : p \in 1..2}

PioStart ==
  /\ encIn = [kind |-> "secs", t |-> BaseTuple, z1 |-> 0, secs |-> 0]
  /\ encOut = None
  /\ RunIdle
  /\ InitIdle
  /\ GfIdle
  /\ SwIdle
  /\ hpc = "StateMachine"
  /\ plan \in Plans
  /\ feed = plan
  /\ active = FALSE /\ txFifo = <<>> /\ osr = <<>>
  /\ isr = 0 /\ X = 0 /\ Y = 0 /\ pc = 0 /\ pins = Z
  /\ MeterIdle

pioFrame == <<encVars, runVars, initVars, gfVars, swVars, plan>>

\* line 387, rp2.StateMachine(0, self.pioAsm, ...): the state machine is
\* reset and stopped at the first instruction with both FIFOs and shift
\* registers empty and the side-set pins low; X and Y keep what they held
NewStateMachine ==
  /\ hpc = "StateMachine"
  /\ hpc' = "activeFalse"
  /\ active' = FALSE /\ txFifo' = <<>> /\ osr' = <<>> /\ isr' = 0
  /\ pc' = 0 /\ pins' = Z
  /\ X' \in {0, -1} /\ Y' \in {0, -1}
  /\ UNCHANGED <<pioFrame, feed, meterVars>>

\* line 388, sm.active(False)
SmActiveFalse ==
  /\ hpc = "activeFalse"
  /\ hpc' = "put"
  /\ active' = FALSE
  /\ UNCHANGED <<pioFrame, feed, txFifo, osr, isr, X, Y, pc, pins, meterVars>>

\* line 389, sm.put(SYSTEM_FREQ // DCF77_CARRIER_FREQ // 8 - 2)
SmPutPreload ==
  /\ hpc = "put"
  /\ hpc' = "exec"
  /\ txFifo' = Append(txFifo, Bits(Preload, 32))
  /\ UNCHANGED <<pioFrame, feed, active, osr, isr, X, Y, pc, pins, meterVars>>

\* line 390, sm.exec('out(isr, 32)')
SmExec ==
  /\ hpc = "exec"
  /\ hpc' = "activeTrue"
  /\ LET r == execOutIsr(txFifo, osr)
     IN  isr' = r.isr /\ osr' = r.osr /\ txFifo' = r.txFifo
  /\ UNCHANGED <<pioFrame, feed, active, X, Y, pc, pins, meterVars>>

\* line 391, sm.active(True)
SmActiveTrue ==
  /\ hpc = "activeTrue"
  /\ hpc' = "feed"
  /\ active' = TRUE
  /\ UNCHANGED <<pioFrame, feed, txFifo, osr, isr, X, Y, pc, pins, meterVars>>

\* line 356, sm.put(arg) of a descriptor: it blocks while the FIFO is full.
\* With autopull the running state machine moves the word on to its empty
\* output shift register at once.
SmPut ==
  /\ hpc = "feed"
  /\ feed # <<>>
  /\ Len(txFifo) < FifoDepth
  /\ feed' = Tail(feed)
  /\ IF active /\ osr = <<>> /\ txFifo = <<>>
     THEN osr' = Head(feed) /\ txFifo' = txFifo
     ELSE txFifo' = Append(txFifo, Head(feed)) /\ osr' = osr
  /\ UNCHANGED <<pioFrame, hpc, active, isr, X, Y, pc, pins, meterVars>>

\* an out instruction finds the output shift register empty and the TX FIFO
\* empty: the state machine stalls on it
PioStall ==
  /\ active
  /\ Instr(pc).op = "out"
  /\ osr = <<>>
  /\ stalled' = TRUE
  /\ UNCHANGED <<pioFrame, hpc, feed, active, txFifo, osr, isr, X, Y, pc, pins,
                 fetched, cur, clk, done, sign, halfClk, halfPasses, halfLow,
                 lastHalf, pinClk>>

\* what the instruction ins at address a does to the address, the scratch
\* registers and the output shift register sr (which holds the bits it needs)
Execute(ins, a, xv, yv, sr, isrv) ==
  LET taken == /\ ins.op = "jmp"
               /\ \/ ins.arg = "always"
                  \/ ins.arg = "x_dec" /\ xv # 0
                  \/ ins.arg = "y_dec" /\ yv # 0
      val   == BitsValue(SubSeq(sr, 1, ins.n))
  IN  [pc  |-> IF taken THEN ins.n
               ELSE IF a = Wrap THEN WrapTarget
               ELSE (a + 1) % ProgramLength,
       X   |-> CASE ins.op = "out" /\ ins.arg = "x" -> val
                 [] ins.op = "mov" -> isrv
                 [] ins.op = "jmp" /\ ins.arg = "x_dec" -> Dec32(xv)
                 [] OTHER -> xv,
       Y   |-> CASE ins.op = "out" /\ ins.arg = "y" -> val
                 [] ins.op = "jmp" /\ ins.arg = "y_dec" -> Dec32(yv)
                 [] OTHER -> yv,
       osr |-> IF ins.op = "out" THEN SubSeq(sr, ins.n + 1, Len(sr)) ELSE sr]

\* one instruction of the program
PioStep ==
  /\ active
  /\ LET ins    == Instr(pc)
         clocks == 1 + ins.delay
         r      == Execute(ins, pc, X, Y, osr, isr)
         rest   == r.osr
         fetch  == ins.op = "out" /\ pc = ClocksEnd
         first  == fetched # <<>> /\ ins.side # NoSide
         turn   == ins.side \in {P, N} /\ ins.side # sign
     IN  /\ ~(ins.op = "out" /\ osr = <<>>)
         \* the instruction
         /\ pc' = r.pc /\ X' = r.X /\ Y' = r.Y
         /\ pins' = IF ins.side = NoSide THEN pins ELSE ins.side
         \* autopull: the register emptied by this out is refilled
         /\ IF ins.op = "out"
            THEN IF rest = <<>> /\ txFifo # <<>>
                 THEN osr' = Head(txFifo) /\ txFifo' = Tail(txFifo)
                 ELSE osr' = rest /\ txFifo' = txFifo
            ELSE UNCHANGED <<osr, txFifo>>
         \* the meter: descriptors
         /\ fetched' = IF fetch THEN osr ELSE IF first THEN <<>> ELSE fetched
         /\ cur' = IF first THEN fetched ELSE cur
         /\ clk' = IF first THEN clocks ELSE clk + clocks
         /\ stalled' = IF first THEN FALSE ELSE stalled
         /\ done' = IF first /\ cur # <<>>
                    THEN Append(done, [word |-> cur, clocks |-> clk,
                                       stalled |-> stalled])
                    ELSE done
         \* the meter: half periods
         /\ sign' = IF ins.side \in {P, N} THEN ins.side ELSE sign
         /\ halfClk' = IF turn THEN clocks ELSE halfClk + clocks
         /\ halfPasses' = (IF turn THEN 0 ELSE halfPasses)
                            + (IF pc \in PassStart THEN 1 ELSE 0)
         /\ halfLow' = IF turn THEN pc >= LowAmpH1_6 ELSE halfLow
         /\ lastHalf' = IF turn /\ sign # Z
                        THEN <<[clocks |-> halfClk, passes |-> halfPasses,
                                low |-> halfLow, stalled |-> stalled]>>
                        ELSE lastHalf
         \* the meter: the pins
         /\ pinClk' = IF ins.side # NoSide /\ (ins.side # pins \/ first)
                       THEN clocks ELSE pinClk + clocks
  /\ UNCHANGED <<pioFrame, hpc, feed, active, isr>>

PioNext ==
  \/ NewStateMachine \/ SmActiveFalse \/ SmPutPreload \/ SmExec
  \/ SmActiveTrue \/ SmPut \/ PioStall \/ PioStep

SpecPio == PioStart /\ [][PioNext]_vars

----------------------------------------------------------------------------
(* Dcf77.run: the streaming context (Core0) and the background jobs (Core1) *)

MaxMinutes  == 2
MaxStart    == 1
MaxUnderrun == 1
RunSecs     == 2
\* a secToRun of about a week, beyond the half week line 49 names as maximum
LongRun     == 600000

\* utime.ticks_ms() counts modulo TICKS_PERIOD = 2^30 on this port
TICKS_PERIOD == 2 ^ 30

\* the counter when run starts: a value it wraps from between ticksTimeout
\* and the second minute boundary
TickStarts == {TICKS_PERIOD - 3500}

\* utime.ticks_add(ticks, delta)
ticks_add(t, delta) == (t + delta) % TICKS_PERIOD

\* builds of utime that check the interval raise OverflowError in ticks_add
\* for a delta outside -TICKS_PERIOD/2 < delta < TICKS_PERIOD/2
ticks_addOverflow(delta) ==
  delta >= TICKS_PERIOD \div 2 \/ delta <= 0 - (TICKS_PERIOD \div 2)

\* a subtraction without the wrap-around
ticks_diffPlain(a, b) == a - b

\* utime.ticks_diff(ticks1, ticks2)
ticks_diff(a, b) ==
  ((a - b + TICKS_PERIOD \div 2) % TICKS_PERIOD) - TICKS_PERIOD \div 2

\* line 385: ticksTimeout = utime.ticks_add(utime.ticks_ms(), secToRun * 1000)
ticksTimeout == ticks_add(ticksStart, secToRun * 1000)

\* utime.ticks_ms() at line 419
ticks_ms == (ticksStart + ticks * 1000) % TICKS_PERIOD

\* run starts in the minute before 2024-03-31 00:59 (the vector of the second
\* iteration is the first of CEST), MaxStart..1 seconds before its end
StartTimes == {mktime(2024, 3, 31, 0, 58, 60 - k) : k \in 1..MaxStart}

Init ==
  /\ encIn = [kind |-> "secs", t |-> BaseTuple, z1 |-> 0, secs |-> 0]
  /\ encOut = None
  /\ secToRun \in {0, RunSecs, LongRun}
  /\ ticksStart \in (IF secToRun = 0 THEN {0} ELSE TickStarts)
  /\ now \in StartTimes
  /\ Constructed
  /\ HwIdle

\* the list objects
Alloc(h) == CHOOSE o \in 1..(Cardinality(DOMAIN h) + 1) : o \notin DOMAIN h
\* the objects still named by a slot or by sendTimecode's vector
Collect(h, sets, mv) ==
  [o \in {x \in DOMAIN h : \/ mv = <<x>>
                            \/ \E s \in {0, 1} : sets[s].vector = <<x>>} |-> h[o]]

\* TimecodeSet.getCurrent() / getNext(): the slot they designate
getCurrent == id
getNext    == 1 - id

\* lines 384..395: the lock, ticksTimeout (OverflowError where ticks_add checks
\* its interval), the state machine preloaded and started,
\* alignSecondEdge, and the first vector generated by the streaming context
RunStart ==
  /\ mpc = "off"
  /\ \/ /\ ticks_addOverflow(secToRun * 1000)
        /\ mpc' = "overflow"
        /\ UNCHANGED <<timecodeSets, heap>>
     \/ /\ LET r == genTimecode(now + 59)
               o == Alloc(heap)
           IN  /\ timecodeSets' = [timecodeSets EXCEPT ![getCurrent] =
                                     [secs |-> <<r.secs>>, t |-> <<r.t>>, vector |-> <<o>>]]
               /\ heap' = (o :> r.vector)
        /\ mpc' = "loop"
  /\ UNCHANGED <<hwVars, encVars, secToRun, ticksStart, now, id, lock, pending, job, jobErrors,
                 minute, mvec, i, mval, fifoErrorCheck, underruns, passEmpty,
                 secPuts, sent, fifoErrors, overrunErrors, overrun, ticks, started>>

\* line 411: _thread.start_new_thread(backgroundJob, (lock,))
StartJob ==
  /\ mpc = "loop"
  /\ minute < MaxMinutes
  /\ pending' = pending \cup {minute}
  /\ mpc' = "argVector"
  /\ sent' = <<>>
  /\ started' = started + 1
  /\ UNCHANGED <<hwVars, encVars, secToRun, ticksStart, now, id, timecodeSets, heap, lock, job,
                 jobErrors, minute, mvec, i, mval, fifoErrorCheck,
                 underruns, passEmpty, secPuts, fifoErrors, overrunErrors, overrun, ticks>>

\* line 413, first argument: self.TimecodeSet.getCurrent().vector
ArgVector ==
  /\ mpc = "argVector"
  /\ mvec' = timecodeSets[getCurrent].vector
  /\ heap' = Collect(heap, timecodeSets, mvec')
  /\ mpc' = "argSecond"
  /\ UNCHANGED <<hwVars, encVars, secToRun, ticksStart, now, id, timecodeSets, lock, pending, job,
                 jobErrors, minute, i, mval, fifoErrorCheck, underruns, passEmpty, secPuts, sent, fifoErrors, overrunErrors, overrun, ticks, started>>

\* line 413, second argument: self.TimecodeSet.getCurrent().t.second
\* (AttributeError when t is None)
ArgSecond ==
  /\ mpc = "argSecond"
  /\ LET t == timecodeSets[getCurrent].t
     IN  IF t = None
         THEN mpc' = "crashed" /\ i' = i
         ELSE mpc' = "for" /\ i' = t[1].second
  /\ UNCHANGED <<hwVars, encVars, secToRun, ticksStart, now, id, timecodeSets, heap, lock, pending,
                 job, jobErrors, minute, mvec, mval, fifoErrorCheck,
                 underruns, passEmpty, secPuts, sent, fifoErrors, overrunErrors, overrun, ticks, started>>

\* getPmValue without "or index == 59"
getPmValueNoMark(index, val) ==
  IF index < 10 THEN 1
  ELSE IF index < 15 THEN 0
  ELSE val

\* getPmValue(index, value)
getPmValue(index, val) ==
  IF index < 10 THEN 1
  ELSE IF index < 15 \/ index = 59 THEN 0
  ELSE val

descriptorsOneAsZero(val, index) ==
  (IF val = 0 \/ val = 1 THEN <<<<"LOW_7750", 0>>, <<"HIGH_7750", 0>>>>
   ELSE <<<<"HIGH_7750", 0>>, <<"HIGH_7750", 0>>>>)
  \o <<<<"HIGH_61440_PM", getPmValue(index, val)>>, <<"HIGH_560", 0>>>>

\* the arguments of the putSmFifo calls of one pass of the loop, lines 371..380
descriptorsForSecond(val, index) ==
  (IF val = 0 THEN <<<<"LOW_7750", 0>>, <<"HIGH_7750", 0>>>>
   ELSE IF val = 1 THEN <<<<"LOW_15500", 0>>>>
   ELSE <<<<"HIGH_7750", 0>>, <<"HIGH_7750", 0>>>>)
  \o <<<<"HIGH_61440_PM", getPmValue(index, val)>>, <<"HIGH_560", 0>>>>

\* putSmFifo(arg), lines 352..356, on st = [puts, errors]: the words put so
\* far and the reports printed; empty tells whether sm.tx_fifo() returns 0
\* sm.put(arg), line 356: the words that go into the TX FIFO, in order, for an
\* argument of putSmFifo (an int is one word, an array.array all its words)
putWords(arg) ==
  CASE arg[1] = "LOW_7750"      -> <<LOW_7750>>
    [] arg[1] = "LOW_15500"     -> <<LOW_15500>>
    [] arg[1] = "HIGH_7750"     -> <<HIGH_7750>>
    [] arg[1] = "HIGH_560"      -> <<HIGH_560>>
    [] arg[1] = "HIGH_61440_PM" -> HIGH_61440_PM[arg[2] + 1]

putSmFifoSkipsWhenEmpty(arg, empty, st) ==
  IF fifoErrorCheck /\ empty
  THEN [st EXCEPT !.errors = @ + 1]
  ELSE [st EXCEPT !.puts = Append(@, arg)]

putSmFifo(arg, empty, st) ==
  LET reported == IF fifoErrorCheck /\ empty
                  THEN [st EXCEPT !.errors = @ + 1]
                  ELSE st
  IN  [reported EXCEPT !.puts = Append(@, arg)]

RECURSIVE putEach(_, _, _, _)
\* the putSmFifo calls of one pass, from the k-th on
putEach(ds, empty, k, st) ==
  IF k > Len(ds) THEN st
  ELSE putEach(ds, empty, k + 1, putSmFifo(ds[k], empty[k], st))

CountTrue(f) == Cardinality({k \in DOMAIN f : f[k]})

\* what sm.tx_fifo() == 0 may be at each of n puts
EmptyPatterns(n) ==
  {f \in [1..n -> BOOLEAN] : underruns + CountTrue(f) <= MaxUnderrun}

\* lines 365..382: one pass of the loop of sendTimecode, i < 60
\* (at value = vector[i]: TypeError when vector is None, IndexError beyond the
\* end of the list)
sendTimecodePass ==
  /\ mpc = "for"
  /\ i < 60
  /\ IF mvec = None \/ i >= Len(heap[mvec[1]])
     THEN /\ mpc' = "crashed"
          /\ UNCHANGED <<mval, i, fifoErrorCheck, underruns, passEmpty, secPuts,
                         sent, fifoErrors, ticks>>
     ELSE LET v  == heap[mvec[1]][i + 1]
              ds == descriptorsForSecond(v, i)
          IN  \E empty \in EmptyPatterns(Len(ds)) :
                LET st == putEach(ds, empty, 1, [puts |-> <<>>, errors |-> fifoErrors])
                IN  /\ mval' = v
                    /\ passEmpty' = CountTrue(empty)
                    /\ underruns' = underruns + CountTrue(empty)
                    /\ secPuts' = st.puts
                    /\ fifoErrors' = st.errors
                    /\ fifoErrorCheck' = TRUE
                    /\ sent' = Append(sent, i)
                    /\ i' = i + 1
                    /\ ticks' = ticks + 1
                    /\ mpc' = "for"
  /\ UNCHANGED <<hwVars, encVars, secToRun, ticksStart, now, id, timecodeSets, heap, lock, pending,
                 job, jobErrors, minute, mvec, overrunErrors, overrun, started>>

\* line 365: range(second, 60) is used up
sendTimecodeEnd ==
  /\ mpc = "for"
  /\ i >= 60
  /\ mpc' = "check"
  /\ UNCHANGED <<hwVars, encVars, secToRun, ticksStart, now, id, timecodeSets, heap, lock, pending,
                 job, jobErrors, minute, mvec, i, mval, fifoErrorCheck,
                 underruns, passEmpty, secPuts, sent, fifoErrors, overrunErrors,
                 overrun, ticks, started>>

\* lines 414..415: if lock.locked(): print("ERROR: ...")
LockCheck ==
  /\ mpc = "check"
  /\ overrunErrors' = IF lock # "free" THEN overrunErrors \cup {minute}
                      ELSE overrunErrors
  /\ mpc' = "swap"
  /\ UNCHANGED <<hwVars, encVars, secToRun, ticksStart, now, id, timecodeSets, heap, lock, pending,
                 job, jobErrors, minute, mvec, i, mval, fifoErrorCheck,
                 underruns, passEmpty, secPuts, sent, fifoErrors, overrun, ticks, started>>

swapKeepsId ==
  /\ mpc = "swap"
  /\ id' = id
  /\ overrun' = (overrun \/ pending # {} \/ job.pc # "idle")
  /\ mpc' = "timeout"
  /\ UNCHANGED <<hwVars, encVars, secToRun, ticksStart, now, timecodeSets, heap, lock, pending,
                 job, jobErrors, minute, mvec, i, mval, fifoErrorCheck,
                 underruns, passEmpty, secPuts, sent, fifoErrors, overrunErrors, ticks, started>>

\* TimecodeSet.swap(), called at line 417
swap ==
  /\ mpc = "swap"
  /\ id' = 1 - id
  /\ overrun' = (overrun \/ pending # {} \/ job.pc # "idle")
  /\ mpc' = "timeout"
  /\ UNCHANGED <<hwVars, encVars, secToRun, ticksStart, now, timecodeSets, heap, lock, pending,
                 job, jobErrors, minute, mvec, i, mval, fifoErrorCheck,
                 underruns, passEmpty, secPuts, sent, fifoErrors, overrunErrors, ticks, started>>

\* lines 419..421: leave the loop once more than secToRun seconds have passed
CheckSecToRun ==
  /\ mpc = "timeout"
  /\ IF secToRun > 0 /\ ticks_diff(ticks_ms, ticksTimeout) > 0
     THEN mpc' = "finished" /\ minute' = minute
     ELSE mpc' = "loop" /\ minute' = minute + 1
  /\ UNCHANGED <<hwVars, encVars, secToRun, ticksStart, now, id, timecodeSets, heap, lock, pending,
                 job, jobErrors, mvec, i, mval, fifoErrorCheck, underruns, passEmpty, secPuts, sent, fifoErrors, overrunErrors, overrun, ticks, started>>

jobFrame == <<hwVars, encVars, secToRun, ticksStart, now, id, mpc, minute, mvec, i, mval, fifoErrorCheck, underruns, passEmpty, secPuts, sent, fifoErrors,
              overrunErrors, overrun, ticks, started>>

\* line 399: "with lock:" entered by one of the started jobs
JobAcquireNoLock ==
  /\ lock = "free" /\ job.pc = "idle"
  /\ \E k \in pending :
       /\ pending' = pending \ {k}
       /\ job' = [NoJob EXCEPT !.pc = "current", !.k = k]
  /\ UNCHANGED <<jobFrame, lock, timecodeSets, heap, jobErrors>>

JobAcquire ==
  /\ lock = "free"
  /\ \E k \in pending :
       /\ pending' = pending \ {k}
       /\ job' = [NoJob EXCEPT !.pc = "current", !.k = k]
  /\ lock' = "job"
  /\ UNCHANGED <<jobFrame, timecodeSets, heap, jobErrors>>

\* lines 401..407: current = getCurrent(), the prints, secs = current.secs
\* (TypeError at vector[0:15] when current.vector is None: the job ends and
\* "with" releases the lock)
JobCurrent ==
  /\ job.pc = "current"
  /\ IF timecodeSets[getCurrent].vector = None
     THEN /\ jobErrors' = jobErrors \cup {job.k}
          /\ job' = NoJob
          /\ lock' = "free"
     ELSE /\ job' = [job EXCEPT !.pc = "next", !.cur = getCurrent]
          /\ UNCHANGED <<jobErrors, lock>>
  /\ UNCHANGED <<jobFrame, pending, timecodeSets, heap>>

JobNextSameMinute ==
  /\ job.pc = "next"
  /\ LET current == timecodeSets[job.cur]
     IN  job' = [job EXCEPT !.pc = "gen", !.nxt = getNext, !.n = 0,
                            !.arg = current.secs[1] - current.t[1].second]
  /\ UNCHANGED <<jobFrame, lock, pending, timecodeSets, heap, jobErrors>>

JobNextPlus60 ==
  /\ job.pc = "next"
  /\ LET current == timecodeSets[job.cur]
     IN  job' = [job EXCEPT !.pc = "gen", !.nxt = getNext, !.n = 0,
                            !.arg = current.secs[1] + 60]
  /\ UNCHANGED <<jobFrame, lock, pending, timecodeSets, heap, jobErrors>>

\* lines 408..409: next = getNext() and the argument of next.genTimecode
JobNext ==
  /\ job.pc = "next"
  /\ LET current == timecodeSets[job.cur]
     IN  job' = [job EXCEPT !.pc = "gen", !.nxt = getNext, !.n = 0,
                            !.arg = current.secs[1] + 60 - current.t[1].second]
  /\ UNCHANGED <<jobFrame, lock, pending, timecodeSets, heap, jobErrors>>

\* next.genTimecode, lines 280..281: self.secs and self.t
JobGenTime ==
  /\ job.pc = "gen" /\ job.n = 0
  /\ timecodeSets' = [timecodeSets EXCEPT ![job.nxt].secs = <<job.arg>>,
                                          ![job.nxt].t = <<localtime(job.arg)>>]
  /\ job' = [job EXCEPT !.n = 1]
  /\ UNCHANGED <<jobFrame, lock, pending, heap, jobErrors>>

\* next.genTimecode, line 286: self.vector = []
JobGenNew ==
  /\ job.pc = "gen" /\ job.n = 1
  /\ LET o == Alloc(heap)
     IN  /\ timecodeSets' = [timecodeSets EXCEPT ![job.nxt].vector = <<o>>]
         /\ heap' = Collect(heap @@ (o :> <<>>), timecodeSets', mvec)
  /\ job' = [job EXCEPT !.n = 2]
  /\ UNCHANGED <<jobFrame, lock, pending, jobErrors>>

\* next.genTimecode, lines 287..298: one "self.vector += ..." statement
JobGenAppend ==
  /\ job.pc = "gen" /\ job.n \in 2..13
  /\ LET slot == timecodeSets[job.nxt]
         o    == slot.vector[1]
         z1   == BoolInt(isSummerTime(slot.secs[1]))
     IN  heap' = [heap EXCEPT ![o] = @ \o genStmt(job.n - 1, slot.t[1], z1, @)]
  /\ job' = IF job.n = 13 THEN [job EXCEPT !.pc = "release", !.n = 0]
            ELSE [job EXCEPT !.n = @ + 1]
  /\ UNCHANGED <<jobFrame, lock, pending, timecodeSets, jobErrors>>

\* the end of "with lock:": the job is over
JobRelease ==
  /\ job.pc = "release"
  /\ lock' = "free"
  /\ job' = NoJob
  /\ UNCHANGED <<jobFrame, pending, timecodeSets, heap, jobErrors>>

Next ==
  \/ RunStart \/ StartJob \/ ArgVector \/ ArgSecond
  \/ sendTimecodePass \/ sendTimecodeEnd \/ LockCheck \/ swap \/ CheckSecToRun
  \/ JobAcquire \/ JobCurrent \/ JobNext \/ JobGenTime \/ JobGenNew
  \/ JobGenAppend \/ JobRelease

Spec == Init /\ [][Next]_vars

\* the loop of run keeps running on Core0: it takes no lock, and sm.put
\* blocks only until the state machine, which never stops, has taken a word
RunLoop ==
  \/ StartJob \/ ArgVector \/ ArgSecond
  \/ sendTimecodePass \/ sendTimecodeEnd \/ LockCheck \/ swap \/ CheckSecToRun
SpecFair == Spec /\ WF_vars(RunLoop)

----------------------------------------------------------------------------
(* Properties of the encoder.                                               *)

EncDone   == encOut # None
EncVector == encOut[1].vector[1]
EncT      == encOut[1].t[1]
\* the calls whose TimeTuple is calendar-valid (those on seconds always are)
EncValid  == encIn.kind = "secs" \/ ValidTuple(encIn.t)

RECURSIVE Total(_, _, _)
\* v[a] + ... + v[b], indices counted from 0 as in the code
Total(v, a, b) == IF a > b THEN 0 ELSE v[a + 1] + Total(v, a + 1, b)

\* C1: for every calendar-valid time and either summer-time flag the vector
\* has exactly 60 symbols, index 0 is 0, index 20 is 1, index 59 is 2, every
\* other index is 0 or 1, and the three parity groups 21..28, 29..35 and
\* 36..58 have even sums.
C1_VectorShape ==
  (EncDone /\ EncValid) =>
    LET v == EncVector
    IN  /\ Len(v) = 60
        /\ v[1] = 0 /\ v[21] = 1 /\ v[60] = 2
        /\ \A k \in 0..58 : v[k + 1] \in {0, 1}
        /\ Total(v, 21, 28) % 2 = 0
        /\ Total(v, 29, 35) % 2 = 0
        /\ Total(v, 36, 58) % 2 = 0

\* a valid call, summer-time flag set, whose parity bits P1 and P2 are both 1
C1_Witness ==
  /\ EncDone /\ EncValid /\ encIn.kind = "tuple" /\ encIn.z1 = 1
  /\ Len(EncVector) = 60 /\ EncVector[29] = 1 /\ EncVector[36] = 1

Weights == <<1, 2, 4, 8, 10, 20, 40, 80>>

RECURSIVE Decode(_, _, _)
\* the number that the bits v[a..b] (from 0) spell with the BCD weights
Decode(v, a, b) ==
  IF a > b THEN 0 ELSE v[b + 1] * Weights[b - a + 1] + Decode(v, a, b - 1)

\* C2: decoding the six BCD fields with the weights 1,2,4,8,10,20,40,80
\* returns minute, hour, day, weekday+1, month and year mod 100; minute 5 is
\* [1,0,1,0,0,0,0] with parity bit P1 = 0.
C2_BcdRoundTrip ==
  (EncDone /\ EncValid) =>
    LET v == EncVector
        t == EncT
    IN  /\ Decode(v, 21, 27) = t.minute
        /\ Decode(v, 29, 34) = t.hour
        /\ Decode(v, 36, 41) = t.mday
        /\ Decode(v, 42, 44) = t.weekday + 1
        /\ Decode(v, 45, 49) = t.month
        /\ Decode(v, 50, 57) = t.year % 100
        /\ (t.minute = 5 => SubSeq(v, 22, 28) = <<1, 0, 1, 0, 0, 0, 0>> /\ v[29] = 0)

\* a year with two non-zero digits, on the 29th, encoded
C2_Witness ==
  /\ EncDone /\ encIn.kind = "tuple"
  /\ encIn.t.year = 2099 /\ encIn.t.mday = 29 /\ encIn.t.minute = 5
  /\ SubSeq(EncVector, 51, 58) = <<1, 0, 0, 1, 1, 0, 0, 1>>

\* month, day and hour as one number, to compare instants of one year
Stamp(t) == (t.month * 100 + t.mday) * 100 + t.hour

\* CEST by the calendar: from 01:00 on the last Sunday of March (2024-03-31,
\* 2025-03-30) until 01:00 on the last Sunday of October (2024-10-27, 2025-10-26)
CestByCalendar(t) ==
  IF t.year = 2024 THEN 33101 <= Stamp(t) /\ Stamp(t) < 102701
  ELSE 33001 <= Stamp(t) /\ Stamp(t) < 102601

\* C3: z1 is 1 exactly from the March switch instant until the October one
\* and z2 is its complement; the vector for 2024-03-31 00:59 has z1 = 0 and
\* z2 = 1, the one for 2024-03-31 01:00 has z1 = 1 and z2 = 0.
C3_SummerTimeBoundary ==
  (EncDone /\ encIn.kind = "secs") =>
    LET v == EncVector
        t == EncT
    IN  /\ t.year \in {2024, 2025}
        /\ v[18] = BoolInt(CestByCalendar(t))
        /\ v[19] = 1 - v[18]
        /\ (encIn.secs \in 1711846740..1711846799 =>
              /\ <<t.year, t.month, t.mday, t.hour, t.minute>> = <<2024, 3, 31, 0, 59>>
              /\ v[18] = 0 /\ v[19] = 1)
        /\ (encIn.secs \in 1711846800..1711846859 =>
              /\ <<t.year, t.month, t.mday, t.hour, t.minute>> = <<2024, 3, 31, 1, 0>>
              /\ v[18] = 1 /\ v[19] = 0)

\* the vector generated for 2024-03-31 01:00:00, the first second of CEST
C3_Witness ==
  /\ EncDone /\ encIn.kind = "secs" /\ encIn.secs = 1711846800
  /\ EncVector[18] = 1 /\ EncVector[19] = 0

C13_FixedBitsAndZone ==
  EncDone =>
    LET v == EncVector
    IN  /\ \A k \in 0..16 : v[k + 1] = 0
        /\ v[19 + 1] = 0
        /\ v[17 + 1] \in {0, 1}
        /\ v[18 + 1] = 1 - v[17 + 1]
        /\ encIn.kind = "secs" => (v[17 + 1] = 1 <=> isSummerTime(encIn.secs))
        /\ encIn.kind = "tuple" => v[17 + 1] = encIn.z1

\* the first second of CEST in 2025 encoded: z1 = 1, z2 = 0
C13_Witness ==
  /\ EncDone /\ encIn.kind = "secs" /\ encIn.secs = mktime(2025, 3, 30, 1, 0, 0)
  /\ EncVector[18] = 1 /\ EncVector[19] = 0 /\ EncVector[17] = 0 /\ EncVector[20] = 0

----------------------------------------------------------------------------
(* Properties of the run loop.                                              *)

\* the streaming context holds the vector it passed to sendTimecode
Streaming == mpc \in {"argSecond", "for"}

\* C4: in every interleaving, the vector that sendTimecode reads is a
\* complete 60-symbol vector of one finished genTimecode call, never None,
\* empty or partially built.
C4_ReadsCompleteVector ==
  Streaming => (mvec # None /\ Len(heap[mvec[1]]) = 60)

\* C5: a slot the background job writes is not the slot selected by the
\* active index, and the streaming context reads the vector of the slot the
\* active index selects.
C5_WritesOnlyInactiveSlot ==
  /\ job.pc = "gen" => job.nxt # id
  /\ (Streaming /\ mvec # None) => timecodeSets[id].vector = mvec

\* C6: the streaming context never holds the lock of the background job and
\* a background job that overrun is not fatal to it: the run loop never
\* ends by an exception.
C6_NeverBlockedNeverFatal ==
  /\ lock # "main"
  /\ mpc # "crashed"

\* the job started in iteration k has not yet generated the next vector
JobUnfinished(k) ==
  \/ k \in pending
  \/ job.k = k /\ job.pc \in {"current", "next", "gen"}

\* C7: when the streaming context reaches the swap and the job started for
\* this minute has not finished generating, the overrun has been reported.
C7_OverrunAlwaysReported ==
  (mpc = "swap" /\ JobUnfinished(minute)) => minute \in overrunErrors

\* C8 as stated: the active index is written only while the writer holds the
\* guard, and the guard is not held during the background computation.
C8_GuardOnlyForFlip ==
  [][/\ id' # id => lock = "main"
     /\ job.pc = "gen" => lock # "job"]_vars

\* C8 as amended: the active index is written only by the streaming context,
\* in swap(), which holds no guard; the guard is held by the background job,
\* from the start of "with lock" to its end, and never by the streaming
\* context.
C8_FlipUnguarded ==
  [][/\ id' # id => (mpc = "swap" /\ mpc' = "timeout" /\ lock' = lock)
     /\ lock # "main" /\ lock' # "main"
     /\ (lock = "job") <=> (job.pc # "idle")
     /\ (lock' = "job") <=> (job'.pc # "idle")]_vars

\* the active index was flipped while a background job held the lock
C8_Witness ==
  mpc = "timeout" /\ id = 1 /\ lock = "job" /\ job.pc = "gen"

\* one pass of the loop of sendTimecode
PassStep == mpc = "for" /\ i' = i + 1

\* the indices start..(next - 1), in increasing order
Consecutive(seq, next) ==
  \A k \in 1..Len(seq) : seq[k] = next - Len(seq) + k - 1

\* C9: a put at which the FIFO is observed empty is still performed and is
\* reported exactly once; the loop goes on with the remaining descriptors, and
\* at the end of sendTimecode the indices up to 59 have all been pushed, in
\* increasing order, each with all its descriptors.
C9_UnderrunReportedOnce ==
  [][/\ PassStep =>
          /\ secPuts' = descriptorsForSecond(mval', i)
          /\ sent' = Append(sent, i)
          /\ mpc' = "for"
     /\ (PassStep /\ fifoErrorCheck) =>
          fifoErrors' = fifoErrors + passEmpty'
     /\ fifoErrors' # fifoErrors => (PassStep /\ fifoErrorCheck)
     /\ mpc' = "for" => Consecutive(sent', i')
     /\ mpc' = "check" => (Consecutive(sent', 60) /\ sent' # <<>>)]_vars

\* the pass of second 30 of the second minute found the FIFO empty at one put:
\* one report, every word of the second put, seconds 0..30 streamed in order
C9_Witness ==
  /\ mpc = "for" /\ minute = 1 /\ i = 31
  /\ passEmpty = 1 /\ underruns = 1 /\ fifoErrors = 1
  /\ secPuts = descriptorsForSecond(mval, 30)
  /\ sent = [k \in 1..31 |-> k - 1]

\* C12: in the first minute the first index streamed is the second of the
\* minute read at activation (utime.time() right after alignSecondEdge), and
\* the indices from there to 59 follow in increasing order.
C12_StartsAtActivationSecond ==
  (minute = 0 /\ sent # <<>>) =>
     /\ sent[1] = localtime(now).second
     /\ \A k \in 1..Len(sent) : sent[k] = sent[1] + k - 1

\* the iteration of the run loop has executed its swap (line 417)
Swapped == mpc \in {"timeout", "finished"}

\* C15: id is 0 or 1 and getCurrent, getNext designate different slots; id
\* changes only in the step of swap(), which flips it, after the pass of index
\* 59 (never while mpc is in sendTimecode); and swap() is run once per
\* iteration: before the swap of iteration k the flag has been flipped k times,
\* after it k + 1 times.
C15_SwapOncePerMinute ==
  [][/\ id \in {0, 1} /\ id' \in {0, 1}
     /\ getCurrent # getNext
     /\ id = (IF Swapped THEN minute + 1 ELSE minute) % 2
     /\ id' # id => /\ mpc = "swap" /\ mpc' = "timeout"
                    /\ i = 60 /\ sent # <<>> /\ sent[Len(sent)] = 59
                    /\ minute' = minute
     /\ (mpc = "swap" /\ mpc' # mpc) => id' = 1 - id
     /\ mpc \in {"argVector", "argSecond", "for", "check"} => id' = id]_vars

\* the second iteration has flipped the flag back to 0 after a whole minute
C15_Witness ==
  /\ mpc = "timeout" /\ minute = 1 /\ id = 0 /\ Len(sent) = 60

\* the indices 0..n-1 in increasing order
UpTo(n) == [k \in 1..n |-> k - 1]

\* C16: as long as no swap has run with a background job unfinished, every
\* instant a background job generates a vector for has second 0, and from the
\* second minute on sendTimecode starts at index 0 and goes through the indices
\* in increasing order: all of 0..59 have been put when its loop ends.
C16_LaterMinutesStartAtZero ==
  ~overrun =>
    /\ job.pc = "gen" => localtime(job.arg).second = 0
    /\ (minute >= 1 /\ mpc = "for") => (sent = UpTo(i) /\ i <= 60)
    /\ (minute >= 1 /\ mpc \in {"check", "swap"}) => sent = UpTo(60)

\* the first minute started at index 58 or 59, the second is through 0..59
C16_Witness ==
  /\ ~overrun /\ minute = 1 /\ mpc = "check" /\ sent = UpTo(60)
  /\ localtime(now + 59).second >= 58
  /\ timecodeSets[getCurrent].t[1].second = 0

\* the calendar minute a vector spells: year in century, month, day, hour, minute
EncodedMinute(v) ==
  <<Decode(v, 50, 57), Decode(v, 45, 49), Decode(v, 36, 41),
    Decode(v, 29, 34), Decode(v, 21, 27)>>

\* the calendar minute that comes k minutes after the one of the instant secs
MinuteAfter(secs, k) ==
  LET t == localtime((secs \div 60) * 60 + 60 * k)
  IN  <<t.year % 100, t.month, t.mday, t.hour, t.minute>>

\* C17: one background job is started per iteration of the run loop (as many
\* start_new_thread calls as minutes begun), and as long as no swap has run
\* with a background job unfinished, the vector streamed in the k-th minute
\* spells the calendar minute k minutes after the one of the first vector
\* (that of utime.time() + 59 at activation): each minute is followed by the
\* next one, none skipped, none twice.
C17_ConsecutiveMinutes ==
  /\ started = (IF mpc \in {"off", "overflow", "loop"} THEN minute ELSE minute + 1)
  /\ \A k \in pending : k < started
  /\ (~overrun /\ mpc = "for") =>
       /\ mvec # None
       /\ Len(heap[mvec[1]]) = 60
       /\ EncodedMinute(heap[mvec[1]]) = MinuteAfter(now + 59, minute)

\* the second minute streams 01:00 of 2024-03-31 after 00:59 in the first
C17_Witness ==
  /\ ~overrun /\ mpc = "for" /\ minute = 1 /\ i = 30 /\ started = 2
  /\ EncodedMinute(heap[mvec[1]]) = <<24, 3, 31, 1, 0>>
  /\ MinuteAfter(now + 59, 0) = <<24, 3, 31, 0, 59>>

\* The fields of a FIFO word as the carrier program takes them: Clocks
\* [21:0], LowAmp [22], PhasePol [23], PhaseOfs [31:24]; and the carrier cycles
\* the word stands for: a low amplitude word counts 75 per cycle, a high
\* amplitude word 298 per cycle, both less one.
WordClocks(w)   == BitsValue(SubSeq(w, 1, 22))
WordLowAmp(w)   == w[23] = 1
WordPhasePol(w) == w[24]
WordPhaseOfs(w) == BitsValue(SubSeq(w, 25, 32))
WordCycles(w) ==
  IF WordLowAmp(w) THEN (WordClocks(w) + 1) \div 75 ELSE (WordClocks(w) + 1) \div 298
WordWhole(w) ==
  (WordClocks(w) + 1) % (IF WordLowAmp(w) THEN 75 ELSE 298) = 0
\* no phase shift: PhasePol 0 and PhaseOfs 148
WordPlain(w) == WordPhasePol(w) = 0 /\ WordPhaseOfs(w) = 148

\* the cycles of the words ws[a..b] together
RECURSIVE SumCycles(_, _, _)
SumCycles(ws, a, b) ==
  IF a > b THEN 0
  ELSE IF a = b THEN WordCycles(ws[a])
  ELSE LET m == (a + b) \div 2
       IN  SumCycles(ws, a, m) + SumCycles(ws, m + 1, b)

Puts ==
  {<<"LOW_7750", 0>>, <<"LOW_15500", 0>>, <<"HIGH_7750", 0>>, <<"HIGH_560", 0>>,
   <<"HIGH_61440_PM", 0>>, <<"HIGH_61440_PM", 1>>}

\* what each argument of putSmFifo amounts to: number of words, cycles in all,
\* low or high amplitude throughout, phase shifted or not throughout, and the
\* cycles of each word when they all agree (0 otherwise)
PutSummary ==
  [p \in Puts |->
     LET ws == putWords(p)
     IN  [words  |-> Len(ws),
          cycles |-> SumCycles(ws, 1, Len(ws)),
          whole  |-> \A k \in 1..Len(ws) : WordWhole(ws[k]),
          low    |-> \A k \in 1..Len(ws) : WordLowAmp(ws[k]),
          high   |-> \A k \in 1..Len(ws) : ~WordLowAmp(ws[k]),
          plain  |-> \A k \in 1..Len(ws) : WordPlain(ws[k]),
          pm     |-> \A k \in 1..Len(ws) : ~WordPlain(ws[k]),
          each   |-> IF \A k \in 1..Len(ws) : WordCycles(ws[k]) = WordCycles(ws[1])
                     THEN WordCycles(ws[1]) ELSE 0]]

Low(c)   == [words |-> 1, cycles |-> c, whole |-> TRUE, low |-> TRUE, high |-> FALSE,
             plain |-> TRUE, pm |-> FALSE, each |-> c]
High(c)  == [words |-> 1, cycles |-> c, whole |-> TRUE, low |-> FALSE, high |-> TRUE,
             plain |-> TRUE, pm |-> FALSE, each |-> c]
Chips512 == [words |-> 512, cycles |-> 512 * 120, whole |-> TRUE, low |-> FALSE,
             high |-> TRUE, plain |-> FALSE, pm |-> TRUE, each |-> 120]

\* milliseconds that c carrier cycles last
CyclesMs(c) == (c * 1000) \div DCF77_CARRIER_FREQ

\* C18: the puts of one second are, in order, for symbol 0: low 7750, high
\* 7750, 512 phase shifted high chips of 120, high 560; for 1: low 15500, the
\* chips, high 560; for the minute mark: high 7750 twice, the chips, high 560;
\* 77500 cycles in all each time, the low amplitude at the start lasting 100,
\* 200 and 0 ms.
C18_DescriptorsPerSecond ==
  secPuts # <<>> =>
    LET sm  == [k \in 1..Len(secPuts) |-> PutSummary[secPuts[k]]]
        tot == IF Len(sm) = 3 THEN sm[1].cycles + sm[2].cycles + sm[3].cycles
               ELSE sm[1].cycles + sm[2].cycles + sm[3].cycles + sm[4].cycles
        lowCycles == IF sm[1].low THEN sm[1].cycles ELSE 0
    IN  /\ mval = 0 => sm = <<Low(7750), High(7750), Chips512, High(560)>>
        /\ mval = 1 => sm = <<Low(15500), Chips512, High(560)>>
        /\ mval = 2 => sm = <<High(7750), High(7750), Chips512, High(560)>>
        /\ mval \in {0, 1, 2}
        /\ tot = 77500
        /\ CyclesMs(lowCycles) = (CASE mval = 0 -> 100 [] mval = 1 -> 200 [] mval = 2 -> 0)
        /\ \A k \in 2..Len(sm) : sm[k].high

\* the second of index 20 (the start bit, always 1) of a whole minute has
\* been put: low 15500, the chips, high 560
C18_Witness ==
  /\ mpc = "for" /\ minute = 1 /\ i = 21 /\ mval = 1 /\ Len(secPuts) = 3
  /\ PutSummary[secPuts[1]].cycles = 15500

\* the selector of the phase modulation pattern among the puts of a pass
PmSelector(puts) ==
  LET k == CHOOSE k \in 1..Len(puts) : puts[k][1] = "HIGH_61440_PM"
  IN  puts[k][2]

\* HIGH_61440_PM[1] is the inverse of HIGH_61440_PM[0], chip by chip
PatternsInverse ==
  \A k \in 1..PmChips :
    /\ HIGH_61440_PM[1][k] \in {HIGH_120_PM_CHIP[1], HIGH_120_PM_CHIP[2]}
    /\ HIGH_61440_PM[2][k] \in {HIGH_120_PM_CHIP[1], HIGH_120_PM_CHIP[2]}
    /\ HIGH_61440_PM[2][k] # HIGH_61440_PM[1][k]

\* getPmValue on every index and symbol
SelectorRule ==
  /\ \A idx \in 0..59 : \A v \in {0, 1} :
        getPmValue(idx, v) = (IF idx < 10 \/ (15 <= idx /\ idx <= 58 /\ v = 1)
                              THEN 1 ELSE 0)
  /\ getPmValue(59, 2) = 0

\* C24: the pattern put for the second of index i is the inverted one
\* (selector 1) exactly when i < 10 or 15 <= i <= 58 and vector[i] = 1, and
\* the other one (selector 0) for i in 10..14, for i = 59 and for a data bit
\* 0; the selector is always 0 or 1, the minute mark 2 being at index 59 only.
C24_PatternSelected ==
  /\ PatternsInverse
  /\ SelectorRule
  /\ (secPuts # <<>> /\ sent # <<>>) =>
       LET idx == sent[Len(sent)]
           sel == PmSelector(secPuts)
       IN  /\ \E k \in 1..Len(secPuts) : secPuts[k][1] = "HIGH_61440_PM"
           /\ sel \in {0, 1}
           /\ sel = 1 <=> (idx < 10 \/ (15 <= idx /\ idx <= 58 /\ mval = 1))
           /\ (idx \in 10..14 \/ idx = 59 \/ (idx >= 15 /\ mval = 0)) => sel = 0
           /\ mval = 2 => idx = 59

\* the minute mark of a whole minute has been put with the pattern that is
\* not inverted
C24_Witness ==
  /\ mpc = "for" /\ minute = 1 /\ i = 60 /\ mval = 2
  /\ sent # <<>> /\ sent[Len(sent)] = 59 /\ PmSelector(secPuts) = 0

----------------------------------------------------------------------------
(* Properties of the end of run *)

\* secToRun * 1000 is an interval ticks_add and ticks_diff can hold
InTickRange == secToRun * 1000 < TICKS_PERIOD \div 2
\* the values of secToRun > 0 of which that is true
ShortRuns == 1..((TICKS_PERIOD \div 2 - 1) \div 1000)

\* run is past its loop after a whole minute: sendTimecode sent up to second
\* 59, and every iteration begun has swapped
LeftAtBoundary ==
  /\ i = 60 /\ sent # <<>> /\ sent[Len(sent)] = 59
  /\ id = (minute + 1) % 2

\* what holds of every state when run ends as C27 says, for every secToRun
EndsAsStated ==
  /\ secToRun = 0 => mpc # "finished"
  /\ mpc \notin {"overflow", "crashed"}
  /\ mpc = "finished"
       => /\ LeftAtBoundary
          /\ ticks > secToRun
          /\ minute > 0 => ticks - 60 <= secToRun
  /\ (secToRun > 0 /\ mpc = "loop" /\ minute > 0) => ticks <= secToRun

\* the same for the intervals the tick counter can hold, and up to the
\* exception that ends run when a swap has overtaken a background job
EndsInRange ==
  /\ secToRun = 0 => mpc # "finished"
  /\ (InTickRange /\ ~overrun) => mpc \notin {"overflow", "crashed"}
  /\ (InTickRange /\ mpc = "finished")
       => /\ LeftAtBoundary
          /\ ticks > secToRun
          /\ minute > 0 => ticks - 60 <= secToRun
  /\ (InTickRange /\ secToRun > 0 /\ mpc = "loop" /\ minute > 0)
       => ticks <= secToRun
  /\ secToRun \in ShortRuns <=> (secToRun > 0 /\ InTickRange)

\* the loop is left from the check of line 419 only, which follows the swap
LeavesAfterSwap ==
  /\ (mpc' = "finished" /\ mpc # "finished") => mpc = "timeout"
  /\ (mpc' = "timeout" /\ mpc # "timeout") => id' = 1 - id

----------------------------------------------------------------------------
(* Properties of the carrier sequencer.                                     *)

\* the words the program has begun to decode, oldest first
Decoded ==
  [k \in 1..Len(done) |-> done[k].word]
    \o (IF cur = <<>> THEN <<>> ELSE <<cur>>)
    \o (IF fetched = <<>> THEN <<>> ELSE <<fetched>>)

\* the word of line 389 as it lies in the TX FIFO
PreloadWord == Bits(Preload, 32)

\* C14: ISR is loaded with SYSTEM_FREQ // DCF77_CARRIER_FREQ // 8 - 2 = 148
\* while the state machine is stopped, before it is started and before any
\* descriptor is put or consumed; the preload word is never decoded as a
\* descriptor (the words decoded are the descriptors put, in their order),
\* and ISR holds 148 ever after.
C14_IsrPreloaded ==
  /\ Preload = 148
  /\ hpc \in {"StateMachine", "activeFalse", "put", "exec", "activeTrue"}
       => ~active /\ feed = plan /\ Decoded = <<>>
  /\ hpc = "activeTrue" => txFifo = <<>> /\ osr = <<>>
  /\ hpc \in {"activeTrue", "feed"} => isr = Preload
  /\ active => hpc = "feed"
  /\ \A k \in 1..Len(Decoded) : Decoded[k] # PreloadWord
  /\ Decoded = SubSeq(plan, 1, Len(Decoded))

\* two descriptors have been driven to their end with ISR = 148
C14_Witness == hpc = "feed" /\ active /\ Len(done) = 2 /\ isr = 148

\* C19: with ISR = 148 every half period of an unmodulated carrier lasts 600
\* clocks (high amplitude: 149 passes; low amplitude: 75 passes), and a
\* zero-phase descriptor of N cycles, high or low, lasts 1200 * N clocks from
\* its first drive instruction to that of the next descriptor, whatever the
\* next descriptor is, unless the state machine stalled meanwhile.
C19_ZeroPhaseClocks ==
  /\ \A k \in 1..Len(done) :
        (WordPlain(done[k].word) /\ ~done[k].stalled)
          => done[k].clocks = (SYSTEM_FREQ \div DCF77_CARRIER_FREQ) * WordCycles(done[k].word)
  /\ (lastHalf # <<>> /\ (\A k \in 1..Len(plan) : WordPlain(plan[k])))
       => (~lastHalf[1].stalled
             => /\ lastHalf[1].clocks = (SYSTEM_FREQ \div DCF77_CARRIER_FREQ) \div 2
                /\ lastHalf[1].passes = (IF lastHalf[1].low THEN 75 ELSE 149))

\* a low amplitude descriptor of two cycles has been driven in 2400 clocks
\* and a high amplitude descriptor follows it
C19_Witness ==
  /\ Len(done) = 2 /\ ~done[2].stalled
  /\ WordLowAmp(done[2].word) /\ WordCycles(done[2].word) = 2
  /\ done[2].clocks = 2400
  /\ cur # <<>> /\ ~WordLowAmp(cur) /\ WordPlain(cur)
  /\ \A k \in 1..Len(plan) : WordPlain(plan[k])
  /\ lastHalf # <<>> /\ lastHalf[1].clocks = 600

\* C20: as long as the FIFO never runs empty, each 120-cycle phase-modulated
\* chip lasts 120 * 1200 = 144,000 clocks.
C20_ChipClocks ==
  \A k \in 1..Len(done) :
    (done[k].word \in {HIGH_120_PM_CHIP[1], HIGH_120_PM_CHIP[2]} /\ ~done[k].stalled)
      => done[k].clocks = 120 * (SYSTEM_FREQ \div DCF77_CARRIER_FREQ)

\* the addresses of the fetch and decode, ClocksEnd to the last instruction
\* before the first drive
DecodeAddrs == {1, 2, 3, 4, 5, 6, 8, 10, 11, 12}

\* C21: the pins are P, N or Z, never both high; while a high amplitude
\* descriptor is current they are the polarity of the half period, never Z;
\* while a low amplitude descriptor is current P or N is held for one clock
\* only, at the start of a pass, every pass of a half period takes 8 clocks,
\* and the pins are Z otherwise; during fetch and decode the pins are what
\* the descriptor left: the last polarity (high) or Z (low, or none yet).
C21_Pins ==
  /\ pins \in {P, N, Z}
  /\ PinLevels(pins) # <<1, 1>>
  /\ (active /\ cur # <<>> /\ ~WordLowAmp(cur))
       => /\ pins \in {P, N}
          /\ pins = sign
          /\ pinClk = halfClk \/ (pinClk = clk /\ clk <= halfClk)
  /\ (active /\ cur # <<>> /\ WordLowAmp(cur))
       => /\ pins \in {P, N}
             => /\ pinClk = 1
                /\ pins = sign
                /\ Instr(pc).side = Z
                /\ Instr(pc).op # "out"
          /\ (pc \in {LowAmpH1, LowAmpH2} /\ halfLow /\ ~stalled)
               => halfClk = 8 * halfPasses
          /\ pc \in DecodeAddrs => pins = Z
  /\ (active /\ pc \in DecodeAddrs /\ cur = <<>>) => pins = Z

\* the second half period of a low amplitude descriptor has driven N for
\* one clock at the start of its first pass, after a high amplitude
\* descriptor
C21_Witness ==
  /\ active /\ cur # <<>> /\ WordLowAmp(cur)
  /\ Len(done) = 1 /\ ~WordLowAmp(done[1].word)
  /\ pins = N /\ pinClk = 1 /\ halfPasses = 1 /\ lastHalf # <<>>
  /\ lastHalf[1].low /\ lastHalf[1].clocks = 600

\* the instructions from an address to the first one with a side-set
RECURSIVE DecodeRun(_)
DecodeRun(st) ==
  IF Instr(st.pc).side # NoSide THEN st
  ELSE DecodeRun(Execute(Instr(st.pc), st.pc, st.X, st.Y, st.osr, Preload))

Presets == {LOW_7750, LOW_15500, HIGH_7750, HIGH_560,
            HIGH_120_PM_CHIP[1], HIGH_120_PM_CHIP[2]}

\* each word Dcf77.__init__ builds, decoded from ClocksEnd: Clocks is in Y,
\* PhaseOfs in X, the word is used up and the path is that of its flags
PresetsDecoded ==
  \A w \in Presets :
    LET d == DecodeRun([pc |-> ClocksEnd, X |-> 0, Y |-> 0, osr |-> w])
    IN  /\ d.Y = WordClocks(w)
        /\ d.X = WordPhaseOfs(w)
        /\ d.osr = <<>>
        /\ d.pc = (IF WordLowAmp(w) THEN LowAmpH1
                   ELSE IF WordPhasePol(w) = 1 THEN 9 ELSE 7)

\* C22: the decode at ClocksEnd recovers Clocks (bits 21:0) into Y, LowAmp
\* (bit 22) and PhasePol (bit 23) into the two branches and PhaseOfs (bits
\* 31:24) into X, and takes exactly 32 bits on each of the three paths: at
\* ClocksEnd the output shift register is empty or holds a whole word, and
\* encoding what was decoded with genFifoData gives the word back.
C22_Decode ==
  /\ PresetsDecoded
  /\ (active /\ pc = ClocksEnd) => Len(osr) \in {0, 32}
  /\ (active /\ fetched # <<>>) =>
       LET low == WordLowAmp(fetched)
           pol == WordPhasePol(fetched)
           lowBit == IF low THEN 1 ELSE 0
       IN  /\ Len(fetched) = 32
           /\ pc \in (DecodeAddrs \ {ClocksEnd}) \cup {7, 9, LowAmpH1}
           /\ Y = WordClocks(fetched)
           /\ pc = 2 => Len(osr) = 10
           /\ pc = 3 => X = lowBit /\ Len(osr) = 9
           /\ pc \in {4, 10} => X = lowBit - 1 /\ Len(osr) = 9
           /\ pc = 5 => X = pol /\ Len(osr) = 8 /\ ~low
           /\ pc \in {6, 8} => X = pol - 1 /\ Len(osr) = 8 /\ ~low
           /\ pc = 6 => pol = 0
           /\ pc = 8 => pol = 1
           /\ pc \in {10, 11, 12, LowAmpH1} => low
           /\ pc = 11 => Len(osr) = 8
           /\ pc \in {7, 9, 12, LowAmpH1} =>
                /\ X = WordPhaseOfs(fetched)
                /\ Len(osr) \in {0, 32}
                /\ pc = 7 => ~low /\ pol = 0
                /\ pc = 9 => ~low /\ pol = 1
                /\ fetched = genFifoData(WordCycles(fetched), pc \in {12, LowAmpH1},
                                          IF pc = 9 THEN -156
                                          ELSE IF pc = 7 /\ X # Preload THEN 156
                                          ELSE 0)

\* the third descriptor, of negative phase, has been decoded after a low
\* amplitude and a high amplitude descriptor of two cycles
C22_Witness ==
  /\ active /\ pc = 9 /\ fetched = Descriptor("minus", 1)
  /\ Len(done) = 1 /\ WordLowAmp(done[1].word)
  /\ cur = Descriptor("high", 2)
  /\ X = 11 /\ Y = 297 /\ osr = <<>>

----------------------------------------------------------------------------
(* Properties of the descriptor words.                                      *)

\* C23: genFifoData gives PhaseOfs 148 with PhasePol 0 for 0 degrees, 135
\* with 0 for +15.6 and 11 with 1 for -15.6, and 148 with 0 for every low
\* amplitude descriptor; for the cycles and amplitudes Dcf77.__init__ uses
\* (low 7750 and 15500, high 120, 560 and 7750) Clocks is cycles * 75 - 1
\* (low) or cycles * 149 * 2 - 1 (high), below 2^22, and for the phases it
\* uses PhaseOfs is the unmasked offset, in 0..255; the word has 32 bits and
\* the words of Dcf77.__init__ are those of pico_ntp2dcf77.py.
C23_FifoWords ==
  /\ LOW_7750 = NTP_LOW_7750 /\ LOW_15500 = NTP_LOW_15500
  /\ HIGH_7750 = NTP_HIGH_7750 /\ HIGH_560 = NTP_HIGH_560
  /\ HIGH_120_PM_CHIP = NTP_HIGH_120_PM_CHIP
  /\ gfWord # <<>> =>
       LET a == gfArgs[1]
           w == gfWord
           clocks == IF a.lowAmp THEN a.cycles * 75 - 1 ELSE a.cycles * 149 * 2 - 1
           used == a.lowAmp \/ a.phase \in {0, 156, -156}
           \* the pairs of cycles and lowAmp of lines 335..343
           built == <<a.cycles, a.lowAmp>> \in
                      {<<7750, TRUE>>, <<15500, TRUE>>, <<7750, FALSE>>,
                       <<560, FALSE>>, <<120, FALSE>>}
       IN  /\ Len(w) = 32
           /\ \A k \in 1..32 : w[k] \in {0, 1}
           /\ WordClocks(w) = clocks % (2 ^ 22)
           /\ built => clocks < 2 ^ 22 /\ WordClocks(w) = clocks
           /\ WordLowAmp(w) = a.lowAmp
           /\ a.lowAmp => WordPhaseOfs(w) = 148 /\ WordPhasePol(w) = 0
           /\ (~a.lowAmp /\ a.phase = 0) => WordPhaseOfs(w) = 148 /\ WordPhasePol(w) = 0
           /\ (~a.lowAmp /\ a.phase = 156) => WordPhaseOfs(w) = 135 /\ WordPhasePol(w) = 0
           /\ (~a.lowAmp /\ a.phase = -156) => WordPhaseOfs(w) = 11 /\ WordPhasePol(w) = 1
           /\ (~a.lowAmp /\ a.phase >= 0)
                => WordPhasePol(w) = 0 /\ WordPhaseOfs(w) = 148 - a.phase \div 12
           /\ (~a.lowAmp /\ a.phase < 0)
                => /\ WordPhasePol(w) = 1
                   /\ WordPhaseOfs(w) = ((0 - a.phase) \div 12 - 2) % 256
                   /\ used => WordPhaseOfs(w) = (0 - a.phase) \div 12 - 2
           /\ (a.cycles = 7750 /\ a.lowAmp) => w = NTP_LOW_7750
           /\ (a.cycles = 15500 /\ a.lowAmp) => w = NTP_LOW_15500
           /\ (a.cycles = 7750 /\ ~a.lowAmp /\ a.phase = 0) => w = NTP_HIGH_7750
           /\ (a.cycles = 560 /\ ~a.lowAmp /\ a.phase = 0) => w = NTP_HIGH_560
           /\ (a.cycles = 120 /\ ~a.lowAmp /\ a.phase = 156) => w = NTP_HIGH_120_PM_CHIP[1]
           /\ (a.cycles = 120 /\ ~a.lowAmp /\ a.phase = -156) => w = NTP_HIGH_120_PM_CHIP[2]

\* genFifoData(15500, True, -15.6) has returned the word LOW_15500
C23_Witness ==
  /\ gfWord # <<>> /\ gfArgs[1].cycles = 15500 /\ gfArgs[1].lowAmp
  /\ gfArgs[1].phase = -156 /\ gfWord = NTP_LOW_15500

----------------------------------------------------------------------------
(* Properties of the construction.                                          *)

Xor(a, b) == (a + b) % 2

\* C11: the chip generator is deterministic and is the 9-bit shift register
\* of DCF77: the second generator run yields, chip by chip, what the first run
\* yielded; from the second chip on every chip is the XOR of the chips 9 and 5
\* places before it, the first six chips being 0,0,0,0,0,1; and the two arrays,
\* once built, have 512 words each, the word of the inverted array being at
\* every index the chip word of the opposite phase.
C11_LfsrDeterministic ==
  /\ \A k \in 1..Len(chips) :
       /\ k <= 6 => chips[k] = (IF k = 6 THEN 1 ELSE 0)
       /\ k >= 11 => chips[k] = Xor(chips[k - 9], chips[k - 5])
       /\ Len(arrays) = 1 => arrays[1][k] = HIGH_120_PM_CHIP[chips[k] + 1]
  /\ \A a \in 1..Len(arrays) : Len(arrays[a]) = 512
  /\ Len(arrays) = 2 =>
       \A k \in 1..512 :
         /\ arrays[1][k] \in {HIGH_120_PM_CHIP[1], HIGH_120_PM_CHIP[2]}
         /\ arrays[2][k] \in {HIGH_120_PM_CHIP[1], HIGH_120_PM_CHIP[2]}
         /\ arrays[2][k] # arrays[1][k]
  /\ Len(arrays) = 2 => arrays = HIGH_61440_PM
  /\ HIGH_120_PM_CHIP[1] # HIGH_120_PM_CHIP[2]

\* both arrays built, the first 1 chip at index 5 giving the -15.6 degree
\* word in the non-inverted array and the +15.6 degree word in the inverted
C11_Witness ==
  /\ Len(arrays) = 2
  /\ arrays[1][6] = HIGH_120_PM_CHIP[2] /\ arrays[2][6] = HIGH_120_PM_CHIP[1]
  /\ arrays[1][1] = HIGH_120_PM_CHIP[1] /\ arrays[2][1] = HIGH_120_PM_CHIP[2]

\* C25 as stated: the register is 8 bits wide, its value stays within 0..255
\* after every step.
C25_EightBitRegister == lfsr \in 0..255

\* C25, amended: the register is 9 bits wide: its value stays within 0..511
\* after every step, and it is 0x110 = 272, above 255, after the first.
C25_NineBitRegister ==
  /\ lfsr \in 0..511
  /\ (Len(arrays) < 2 /\ Len(chips) = 1) => lfsr = 272
  /\ \E n \in 1..PmChips : lfsrAfter(0, n) > 255

\* the 512 steps of a generator are done and the register holds 272 again
C25_Witness == Len(chips) = PmChips /\ lfsr = 272 /\ Len(arrays) = 1

\* the register after each of the steps 1 to 511
RegisterValues == {lfsrAfter(0, n) : n \in 1..(PmChips - 1)}

\* the number of words of an array that are the word w
CountWord(a, w) == Cardinality({k \in 1..Len(a) : a[k] = w})

\* C26: after the first step the register is never 0 again; after the steps
\* 1 to 511 it has held 511 distinct non-zero values (the period is maximal
\* and the 512th step gives the value of the first again); the 512 chips are
\* 256 of each polarity, in the array that is not inverted and in the other.
C26_MaximalPeriod ==
  /\ Cardinality(RegisterValues) = PmChips - 1
  /\ 0 \notin RegisterValues
  /\ lfsrAfter(0, PmChips) = lfsrAfter(0, 1)
  /\ (Len(arrays) < 2 /\ Len(chips) >= 1)
       => /\ lfsr # 0
          /\ lfsr = lfsrAfter(0, Len(chips))
          /\ Len(chips) < PmChips => lfsr \in RegisterValues
  /\ Len(chips) = PmChips
       => Cardinality({k \in 1..PmChips : chips[k] = 1}) = 256
  /\ \A a \in 1..Len(arrays) :
       /\ CountWord(arrays[a], HIGH_120_PM_CHIP[1]) = 256
       /\ CountWord(arrays[a], HIGH_120_PM_CHIP[2]) = 256

\* both arrays are built and the second generator has done its 512 steps
C26_Witness ==
  /\ Len(arrays) = 2
  /\ CountWord(arrays[2], HIGH_120_PM_CHIP[1]) = 256
  /\ CountWord(arrays[1], HIGH_120_PM_CHIP[1]) = 256

----------------------------------------------------------------------------
(* Properties of the switch days *)

\* the weekday of a date as utime.localtime gives it: Monday 0 .. Sunday 6
WeekdayOf(year, month, mday) == (DaysFromCivil(year, month, mday) + 3) % 7

\* the last Sunday of a month of 31 days
LastSunday(year, month) ==
  CHOOSE d \in 25..31 : WeekdayOf(year, month, d) = 6

\* the years whose switch instants are below 2^31 seconds
EarlyYears == 2000..2037

\* C28: for every year from 2000 to 2099 the days isSummerTime gives to
\* mktime, 31 - ((5 * year div 4 + 4) mod 7) in March and
\* 31 - ((5 * year div 4 + 1) mod 7) in October, are the last Sunday of March
\* and the last Sunday of October of that year; CEST begins and ends at
\* 01:00 UTC of those days.
C28_LastSundays ==
  swDays # <<>> =>
    /\ swYear \in SwYears
    /\ swDays[1] \in 25..31 /\ WeekdayOf(swYear, 3, swDays[1]) = 6
    /\ swDays[2] \in 25..31 /\ WeekdayOf(swYear, 10, swDays[2]) = 6
    /\ swDays = <<LastSunday(swYear, 3), LastSunday(swYear, 10)>>
    /\ swYear \in EarlyYears =>
         /\ localtime(HHMarch(swYear)) =
              [year |-> swYear, month |-> 3, mday |-> swDays[1], hour |-> 1,
               minute |-> 0, second |-> 0, weekday |-> 6,
               yearday |-> localtime(HHMarch(swYear)).yearday]
         /\ localtime(HHOctober(swYear)).mday = swDays[2]
         /\ localtime(HHOctober(swYear)).weekday = 6
         /\ isSummerTime(HHMarch(swYear)) /\ ~isSummerTime(HHMarch(swYear) - 1)
         /\ ~isSummerTime(HHOctober(swYear)) /\ isSummerTime(HHOctober(swYear) - 1)

\* the days of 2099, the last year of the range: 29 March and 25 October
C28_Witness == swYear = 2099 /\ swDays = <<29, 25>>

=============================================================================
